---- MODULE Spec2Model ----
(***************************************************************************)
(* Model of the juju "cmd" dispatch core: the alias-aware Registry of      *)
(* Actions (action.go) and the SuperCommand dispatcher (supercommand.go).  *)
(***************************************************************************)
EXTENDS Naturals, Integers, Sequences, FiniteSets, TLC

VARIABLES regs, registered, disp, last, gather, probes, chan, store

vars == <<regs, registered, disp, last, gather, probes, chan, store>>

\* the state of a Descriptions call: the caller, its goroutines, its channel
plugvars == <<gather, probes, chan>>

\* no Descriptions call has been made
GatherIdle ==
    /\ gather = [pc |-> "idle", plugins |-> <<>>, outcomes |-> <<>>,
                 cyclic |-> FALSE, launched |-> 0, received |-> 0,
                 logged |-> 0, results |-> <<>>]
    /\ probes = <<>>
    /\ chan = <<>>

(***************************************************************************)
(* Bounds.                                                                 *)
(***************************************************************************)
\* longest alias list of an action handed to a registration
MaxAliases == 3
\* longest order list a registration is still attempted on
MaxOrder == 4
\* most names the dispatchers' registries hold together (help included)
MaxNested == 5
\* longest path handed to LookUp
MaxPath == 3
\* longest argument list handed to Init
MaxArgs == 2

(***************************************************************************)
(* The universe of names, commands and registries.                         *)
(***************************************************************************)
\* the dispatchers (SuperCommand values); each owns the registry of its name
Supers == {"D", "S"}
\* the registries: one per dispatcher plus a plain NewRegistry() one
RegIds == Supers \cup {"R"}
\* a nil *Registry / nil Command
NilReg == "nilreg"
NilCmd == "nilcmd"
\* the help command of a dispatcher (c.help)
HelpCmd(d) == "help" \o d
\* leaf commands
Leaves == {"L1", "L2"}
\* commands a caller may wrap in an Action
Cmds == Leaves \cup Supers
\* names used by registrations; the empty string is a legal string
Names == {"", "a", "b"}
\* alias names of the alias lists
AliasNames == {"", "a"}
\* replacement names ("" = not deprecated)
Replacements == {"", "new"}

\* error values: the dynamic type and the text of Error()
MkErr(type, msg) == [type |-> type, msg |-> msg]
NoErr == MkErr("nil", "")
Quote(str) == "\"" \o str \o "\""
ErrMissingName == MkErr("error", "action missing name")
ErrMissingCommand == MkErr("error", "action missing command")
ErrRegistered(name) == MkErr("error", "command " \o Quote(name) \o " already registered")
ErrNotFound(name) == MkErr("error", "action " \o Quote(name) \o " not found")
ErrAdded(alias) == MkErr("error", "action " \o Quote(alias) \o " already added")
\* the end of the process when a recursion never returns
ErrStackOverflow == MkErr("fatal", "stack overflow")

(***************************************************************************)
(* Finite maps (Go maps) as functions with a varying domain.               *)
(***************************************************************************)
EmptyMap == [x \in {} |-> x]
MapPut(m, k, v) == [x \in (DOMAIN m) \cup {k} |-> IF x = k THEN v ELSE m[x]]
MapDel(m, k) == [x \in (DOMAIN m) \ {k} |-> m[x]]

RECURSIVE SeqsUpTo(_, _)
SeqsUpTo(S, n) ==
    IF n = 0 THEN {<<>>}
    ELSE LET shorter == SeqsUpTo(S, n - 1)
         IN  shorter \cup {Append(s, x) : s \in {t \in shorter : Len(t) = n - 1}, x \in S}

Range(s) == {s[i] : i \in 1..Len(s)}

(***************************************************************************)
(* Action                                                                  *)
(***************************************************************************)
MkAction(name, aliased, cmd, aliases, repl) ==
    [Name |-> name, AliasedName |-> aliased, Command |-> cmd,
     Aliases |-> aliases, Replacement |-> repl]

\* the zero value of the Action struct
ZeroAction == MkAction("", "", NilCmd, <<>>, "")

Validate(a) ==
    IF a.Name = "" THEN ErrMissingName
    ELSE IF a.Command = NilCmd THEN ErrMissingCommand
    ELSE NoErr

NewAlias(a, alias) == MkAction(alias, a.Name, a.Command, <<>>, "")

\* the type assertion action.Command.(*SuperCommand)
IsSuperCommand(cmd) == cmd \in Supers

\* super.subcmds
Subcmds(cmd) == cmd

(***************************************************************************)
(* Registry                                                                *)
(***************************************************************************)
EmptyRegistry ==
    [order |-> <<>>, actions |-> EmptyMap, aliases |-> EmptyMap, defaultName |-> ""]

NamesOf(reg) == reg.order

lookUp(reg, name) ==
    IF name \in DOMAIN reg.actions
    THEN [action |-> reg.actions[name], ok |-> TRUE]
    ELSE IF name \in DOMAIN reg.aliases /\ reg.aliases[name] \in DOMAIN reg.actions
         THEN [action |-> NewAlias(reg.actions[reg.aliases[name]], name), ok |-> TRUE]
         ELSE [action |-> ZeroAction, ok |-> FALSE]

\* a loop that stops at the first name resolved and never enters the
\* registry of a nested dispatcher
LookUpLoopNoDescend(rs, r, path, action) ==
    IF path = <<>> \/ r = NilReg THEN action
    ELSE LET next == lookUp(rs[r], Head(path))
         IN  IF ~next.ok THEN action ELSE next.action

\* the loop of LookUp: r is the registry the next path element is resolved
\* in, action the last action resolved so far
RECURSIVE LookUpLoop(_, _, _, _)
LookUpLoop(rs, r, path, action) ==
    IF path = <<>> \/ r = NilReg THEN action
    ELSE LET next == lookUp(rs[r], Head(path))
         IN  IF ~next.ok THEN action
             ELSE IF IsSuperCommand(next.action.Command)
                  THEN LookUpLoop(rs, Subcmds(next.action.Command), Tail(path), next.action)
                  ELSE next.action

LookUp(rs, r, path) ==
    IF Len(path) = 0 THEN lookUp(rs[r], rs[r].defaultName)
    ELSE LET action == LookUpLoop(rs, r, path, ZeroAction)
         IN  [action |-> action, ok |-> action.Name # ""]

\* removeString: drops the first occurrence of target
RECURSIVE removeString(_, _)
removeString(items, target) ==
    IF items = <<>> THEN <<>>
    ELSE IF Head(items) = target THEN Tail(items)
    ELSE <<Head(items)>> \o removeString(Tail(items), target)

\* Registry.Add(action)
Add(rs, r, action) ==
    IF Validate(action) # NoErr THEN [rs |-> rs, err |-> Validate(action)]
    ELSE IF LookUp(rs, r, <<action.Name>>).ok THEN [rs |-> rs, err |-> ErrRegistered(action.Name)]
    ELSE [rs |-> [rs EXCEPT ![r].actions = MapPut(@, action.Name, action),
                            ![r].order = Append(@, action.Name)],
          err |-> NoErr]

AddAlias(rs, r, name, alias) ==
    IF name \notin DOMAIN rs[r].actions THEN [rs |-> rs, err |-> ErrNotFound(name)]
    ELSE IF LookUp(rs, r, <<alias>>).ok THEN [rs |-> rs, err |-> ErrAdded(alias)]
    ELSE [rs |-> [rs EXCEPT ![r].aliases = MapPut(@, alias, name),
                            ![r].order = Append(@, alias)],
          err |-> NoErr]

remove(rs, r, name) ==
    IF name \notin DOMAIN rs[r].actions
    THEN IF name \notin DOMAIN rs[r].aliases
         THEN rs
         ELSE [rs EXCEPT ![r].aliases = MapDel(@, name),
                         ![r].order = removeString(@, name)]
    ELSE [rs EXCEPT ![r].actions = MapDel(@, name),
                    ![r].order = removeString(@, name)]

\* a rollback that leaves the aliases added so far in place
removeAddedNone(rs, r, added) == rs

\* the rollback loop of AddWithAliases: for _, alias := range added
RECURSIVE removeAdded(_, _, _)
removeAdded(rs, r, added) ==
    IF added = <<>> THEN rs
    ELSE removeAdded(remove(rs, r, Head(added)), r, Tail(added))

\* the alias loop of AddWithAliases, at alias number i
RECURSIVE AddAliasesFrom(_, _, _, _, _)
AddAliasesFrom(rs, r, action, i, added) ==
    IF i > Len(action.Aliases) THEN [rs |-> rs, err |-> NoErr]
    ELSE LET res == AddAlias(rs, r, action.Name, action.Aliases[i])
         IN  IF res.err # NoErr
             THEN [rs |-> removeAdded(remove(rs, r, action.Name), r, added),
                   err |-> res.err]
             ELSE AddAliasesFrom(res.rs, r, action, i + 1,
                                 Append(added, action.Aliases[i]))

AddWithAliases(rs, r, action) ==
    LET res == Add(rs, r, action)
    IN  IF res.err # NoErr THEN res
        ELSE AddAliasesFrom(res.rs, r, action, 1, <<>>)

\* the loop of NewRegistry: reg.AddWithAliases(action) for each action of
\* initial, up to the first that fails
RECURSIVE AddInitial(_, _, _)
AddInitial(rs, r, initial) ==
    IF initial = <<>> THEN [rs |-> rs, err |-> NoErr]
    ELSE LET res == AddWithAliases(rs, r, Head(initial))
         IN  IF res.err # NoErr THEN res
             ELSE AddInitial(res.rs, r, Tail(initial))

\* NewRegistry(initial...) with the actions of the sequence initial: the
\* registry returned is r, built from empty, or nil with the error of the
\* first action that cannot be added, and then no registry is built
NewRegistryFrom(rs, r, initial) ==
    LET res == AddInitial([rs EXCEPT ![r] = EmptyRegistry], r, initial)
    IN  IF res.err # NoErr
        THEN [rs |-> rs, reg |-> NilReg, err |-> res.err]
        ELSE [rs |-> res.rs, reg |-> r, err |-> NoErr]

\* NewRegistryWithDefault(dflt)
NewRegistryWithDefault(rs, r, dflt) ==
    LET res == NewRegistryFrom(rs, r, <<dflt>>)
    IN  IF res.err # NoErr THEN res
        ELSE [res EXCEPT !.rs[r].defaultName = dflt.Name]

\* SuperCommand.init for dispatcher d (no version string configured): it
\* does nothing when c.subcmds is set already; a registry that init built
\* holds the help action as its default, so the empty registry of rs stands
\* for a nil c.subcmds. The error of NewRegistryWithDefault is dropped, and
\* the help action is valid
SuperInit(rs, d) ==
    IF rs[d] # EmptyRegistry THEN rs
    ELSE NewRegistryWithDefault(rs, d, MkAction("help", "", HelpCmd(d), <<>>, "")).rs

(***************************************************************************)
(* SuperCommand (the dispatcher)                                           *)
(***************************************************************************)
\* c.Name of the dispatchers
SuperName(d) == IF d = "D" THEN "d" ELSE "s"

\* the command a missingCommand value stands for
MissingCmd == "missingCommand"

\* NewSuperCommand(params): the fields of the struct after construction
NewSuperCommand(d, params) ==
    [Name |-> SuperName(d), Purpose |-> params.Purpose, Log |-> params.Log,
     usagePrefix |-> params.UsagePrefix, missingCallback |-> params.MissingCallback,
     notifyRun |-> params.NotifyRun, action |-> ZeroAction,
     showHelp |-> FALSE, showDescription |-> FALSE, commonflags |-> FALSE]

\* the result of a call: the dispatchers afterwards, the error returned, the
\* calls made on collaborators and commands, and whether the call panicked
Outcome(sc, err, events, panic) ==
    [sc |-> sc, err |-> err, events |-> events, panic |-> panic]

Event(ev, who, what, args) == [ev |-> ev, who |-> who, what |-> what, args |-> args]

ErrPanic(msg) == MkErr("panic", msg)
\* an unrecognized-command error that names the candidate only
ErrUnrecognizedBare(super, name) ==
    MkErr("error", "unrecognized command: " \o name)
ErrUnrecognized(super, name) ==
    MkErr("error", "unrecognized command: " \o super \o " " \o name)
ErrFlag(token) == MkErr("error", "flag provided but not defined: " \o token)
ErrSilent == MkErr("ErrSilent", "cmd: error out silently")
\* NewRcPassthroughError(code): the error that carries a child's exit status
NewRcPassthroughError(code) == MkErr("RcPassthroughError", "subprocess encountered error code " \o ToString(code))
ErrRc == NewRcPassthroughError(2)
ErrOther == MkErr("error", "command failed")

\* CheckEmpty(args)
CheckEmpty(args) ==
    IF args = <<>> THEN NoErr ELSE MkErr("error", "unrecognized args")

\* the tokens gnuflag takes for flags, and those the common flag set declares
FlagTokens == {"--help", "--description", "--bogus"}
CommonFlags == {"--help", "--description"}

\* FlagSet.Parse(allowIntersperse, args) on a common flag set: the error, the
\* positional arguments left and the flags met before the parse stopped
RECURSIVE ParseFlags(_, _, _, _)
ParseFlags(allowIntersperse, args, seen, positional) ==
    IF args = <<>> THEN [err |-> NoErr, args |-> positional, seen |-> seen]
    ELSE LET token == Head(args)
         IN  IF token \in FlagTokens
             THEN IF token \in CommonFlags
                  THEN ParseFlags(allowIntersperse, Tail(args),
                                  seen \cup {token}, positional)
                  ELSE [err |-> ErrFlag(token), args |-> positional, seen |-> seen]
             ELSE IF allowIntersperse
                  THEN ParseFlags(allowIntersperse, Tail(args), seen,
                                  Append(positional, token))
                  ELSE [err |-> NoErr, args |-> positional \o args, seen |-> seen]

\* the flag variables of dispatcher d after a parse that met the flags seen
SetSeen(sc, d, seen) ==
    [sc EXCEPT ![d].showHelp = @ \/ "--help" \in seen,
               ![d].showDescription = @ \/ "--description" \in seen]

\* subcmd.AllowInterspersedFlags()
AllowInterspersedFlags(cmd) == ~IsSuperCommand(cmd)

\* cmd.Info() of a command that is not a dispatcher; nil for a missingCommand
NilInfo == [Name |-> "", Aliases |-> <<>>, Purpose |-> "", nil |-> TRUE]
InfoOf(cmd) ==
    IF cmd = MissingCmd THEN NilInfo
    ELSE IF cmd = "L1"
    THEN [Name |-> "a", Aliases |-> <<"b">>, Purpose |-> "purpose of L1", nil |-> FALSE]
    ELSE IF cmd = "L2"
    THEN [Name |-> "b", Aliases |-> <<>>, Purpose |-> "purpose of L2", nil |-> FALSE]
    ELSE [Name |-> "help", Aliases |-> <<>>, Purpose |-> "purpose of " \o cmd,
          nil |-> FALSE]

\* how a call of Info() ends: it returns an Info, it dereferences nil, or it
\* calls itself without end and the stack overflows
Returned(info) == [info |-> info, panic |-> FALSE, overflow |-> FALSE]
NilDereference == [info |-> NilInfo, panic |-> TRUE, overflow |-> FALSE]
NoReturn == [info |-> NilInfo, panic |-> FALSE, overflow |-> TRUE]

\* the byte order of the names of the model, for sort.Strings
NameRank ==
    ("" :> 0) @@ ("a" :> 1) @@ ("b" :> 2) @@ ("c" :> 3) @@ ("d" :> 4)
        @@ ("help" :> 5) @@ ("s" :> 6) @@ ("x" :> 7)

RECURSIVE InsertName(_, _)
InsertName(sorted, name) ==
    IF sorted = <<>> THEN <<name>>
    ELSE IF NameRank[name] < NameRank[Head(sorted)] THEN <<name>> \o sorted
    ELSE <<Head(sorted)>> \o InsertName(Tail(sorted), name)

\* sort.Strings(cmds)
RECURSIVE SortNames(_)
SortNames(names) ==
    IF names = <<>> THEN <<>>
    ELSE InsertName(SortNames(Tail(names)), Head(names))

\* Info() of dispatcher d and the loop of describeCommands, while the
\* dispatchers of stack are in the middle of their own Info(): nothing
\* changes during the call, so a dispatcher entered again is entered without
\* end
RECURSIVE SuperInfoFrom(_, _, _, _)
RECURSIVE describeLines(_, _, _, _, _)

\* cmd.Info(); on a nil Command a nil dereference
CommandInfoFrom(rs, sc, cmd, stack) ==
    IF cmd = NilCmd THEN NilDereference
    ELSE IF IsSuperCommand(cmd) THEN SuperInfoFrom(rs, sc, cmd, stack)
    ELSE Returned(InfoOf(cmd))

\* the rest of Summary once a.Command.Info() has ended as called:
\* info.Purpose on a nil *Info is a nil dereference
SummaryOf(a, called) ==
    IF called.panic \/ called.overflow
    THEN [purpose |-> "", panic |-> called.panic, overflow |-> called.overflow]
    ELSE IF called.info.nil
    THEN [purpose |-> "", panic |-> TRUE, overflow |-> FALSE]
    ELSE [purpose |-> IF a.AliasedName # ""
                      THEN "alias for '" \o a.AliasedName \o "'"
                      ELSE called.info.Purpose,
          panic |-> FALSE, overflow |-> FALSE]

\* Action.Summary(): a.Command.Info() is called first
Summary(rs, sc, a, stack) ==
    SummaryOf(a, CommandInfoFrom(rs, sc, a.Command, stack))

\* one round of the loop of describeCommands after action.Summary() has
\* ended as summary: the line is put out and the loop goes on, or the call
\* ends as the Summary did
describeRest(rs, sc, d, names, stack, summary) ==
    IF summary.panic \/ summary.overflow
    THEN [lines |-> <<>>, panic |-> summary.panic, overflow |-> summary.overflow]
    ELSE LET rest == describeLines(rs, sc, d, Tail(names), stack)
         IN  IF rest.panic \/ rest.overflow THEN rest
             ELSE [rest EXCEPT !.lines = <<[name |-> Head(names),
                                           purpose |-> summary.purpose]>> \o @]

\* one round of the loop of describeCommands for the action that LookUp
\* gave for the name: an action with a replacement is passed over
describeLine(rs, sc, d, names, stack, action) ==
    IF action.Replacement # "" THEN describeLines(rs, sc, d, Tail(names), stack)
    ELSE describeRest(rs, sc, d, names, stack, Summary(rs, sc, action, stack))

\* the loop of describeCommands over the sorted names: the lines put out,
\* or how the first Summary that does not return ends
describeLines(rs, sc, d, names, stack) ==
    IF names = <<>> THEN [lines |-> <<>>, panic |-> FALSE, overflow |-> FALSE]
    ELSE describeLine(rs, sc, d, names, stack, LookUp(rs, d, <<Head(names)>>).action)

describeCommandsFrom(rs, sc, d, stack) ==
    describeLines(rs, sc, d, SortNames(NamesOf(rs[d])), stack)

\* SuperCommand.describeCommands(simple)
describeCommands(rs, sc, d) == describeCommandsFrom(rs, sc, d, {})

\* the Info of a dispatcher with no action selected, once describeCommands
\* has ended as cmds
OwnInfo(sc, d, cmds) ==
    IF cmds.panic THEN NilDereference
    ELSE IF cmds.overflow THEN NoReturn
    ELSE Returned([Name |-> sc[d].Name, Aliases |-> <<>>,
                   Purpose |-> sc[d].Purpose, nil |-> FALSE])

SuperInfoFrom(rs, sc, d, stack) ==
    IF d \in stack THEN NoReturn
    ELSE IF Validate(sc[d].action) = NoErr
    THEN LET called == CommandInfoFrom(rs, sc, sc[d].action.Command, stack \cup {d})
         IN  IF called.panic \/ called.overflow THEN called
             ELSE IF called.info.nil THEN NilDereference
             ELSE Returned([called.info EXCEPT !.Name = sc[d].Name \o " " \o @])
    ELSE OwnInfo(sc, d, describeCommandsFrom(rs, sc, d, stack \cup {d}))

\* SuperCommand.Info()
SuperInfo(rs, sc, d) == SuperInfoFrom(rs, sc, d, {})

CommandInfo(rs, sc, cmd) == CommandInfoFrom(rs, sc, cmd, {})

\* the error a call dies of when the Info() it makes first ends as called
InfoFailure(called) ==
    IF called.overflow THEN ErrStackOverflow
    ELSE IF called.panic THEN ErrPanic("nil pointer dereference")
    ELSE NoErr

\* the rest of SetCommonFlags once c.Info() has ended with the failure
\* failed, or with none: the common flag set is built from c.Info().Name
SetFlagsNamed(sc, d, failed) ==
    IF failed # NoErr THEN Outcome(sc, failed, <<>>, TRUE)
    ELSE Outcome([sc EXCEPT ![d].commonflags = TRUE], NoErr, <<>>, FALSE)

\* SuperCommand.SetFlags(f) with a fresh flag set f: BoolVar resets the flag
\* variables, then c.Info() is called for the name of the common flag set,
\* and the common flag set is built
SetFlags(rs, sc, d) ==
    LET reset == [sc EXCEPT ![d].showHelp = FALSE, ![d].showDescription = FALSE]
    IN  SetFlagsNamed(reset, d, InfoFailure(SuperInfo(rs, reset, d)))

\* the Action of newActionFromCommand once cmd.Info() has ended as called:
\* info.Name on a nil *Info is a nil dereference
ActionFromInfo(cmd, called) ==
    IF called.overflow
    THEN [action |-> ZeroAction, panic |-> TRUE, err |-> ErrStackOverflow]
    ELSE IF called.panic \/ called.info.nil
    THEN [action |-> ZeroAction, panic |-> TRUE,
          err |-> ErrPanic("nil pointer dereference")]
    ELSE [action |-> MkAction(called.info.Name, "", cmd, called.info.Aliases, ""),
          panic |-> FALSE, err |-> NoErr]

\* newActionFromCommand(cmd)
newActionFromCommand(rs, sc, cmd) == ActionFromInfo(cmd, CommandInfo(rs, sc, cmd))

\* SuperCommand.Init(args) of dispatcher d; x holds the results of the calls
\* on commands that are not dispatchers
RECURSIVE SuperCommandInit(_, _, _, _, _)
RECURSIVE ActionInit(_, _, _, _, _)

\* Action.Init(args): a.Command.Init(args)
ActionInit(rs, sc, a, args, x) ==
    IF a.Command = NilCmd
    THEN Outcome(sc, ErrPanic("nil pointer dereference"), <<>>, TRUE)
    ELSE IF IsSuperCommand(a.Command)
    THEN SuperCommandInit(rs, sc, a.Command, args, x)
    ELSE Outcome(sc, x.leafInit, <<Event("Init", a.Command, "", args)>>, FALSE)

\* the part of Init from c.commonflags.Parse on, the flags of subcmd set:
\* a nil c.commonflags is dereferenced
InitParse(rs, sc, d, subcmd, args, x) ==
    IF ~sc[d].commonflags
    THEN Outcome(sc, ErrPanic("nil pointer dereference"), <<>>, TRUE)
    ELSE LET parsed == ParseFlags(AllowInterspersedFlags(subcmd), args, {}, <<>>)
             sc3 == SetSeen(sc, d, parsed.seen)
         IN  IF parsed.err # NoErr
             THEN Outcome(sc3, parsed.err, <<>>, FALSE)
             ELSE IF sc3[d].showHelp
             THEN LET help == LookUp(rs, d, <<"help">>).action
                  IN  ActionInit(rs, [sc3 EXCEPT ![d].action = help], help,
                                 <<sc3[d].action.Name>>, x)
             ELSE ActionInit(rs, sc3, sc3[d].action, parsed.args, x)

\* the branch of Init for a subcommand that is a dispatcher, once the
\* c.Info() for the name of f has ended with the failure failed, or with
\* none: subcmd.SetFlags(f)
InitSuperFlags(rs, sc, d, subcmd, args, x, failed) ==
    IF failed # NoErr THEN Outcome(sc, failed, <<>>, TRUE)
    ELSE LET set == SetFlags(rs, sc, subcmd)
         IN  IF set.panic THEN set
             ELSE InitParse(rs, set.sc, d, subcmd, args, x)

\* the part of Init after the action was found and assigned to c.action:
\* subcmd.IsSuperCommand() on a nil Command is a nil dereference; the
\* SetFlags(c.commonflags) of a command that is not a dispatcher declares
\* no flag of the model
InitFound(rs, sc, d, action, args, x) ==
    LET sc1 == [sc EXCEPT ![d].action = action]
        subcmd == action.Command
    IN  IF subcmd = NilCmd
        THEN Outcome(sc1, ErrPanic("nil pointer dereference"), <<>>, TRUE)
        ELSE IF IsSuperCommand(subcmd)
        THEN InitSuperFlags(rs, sc1, d, subcmd, args, x,
                            InfoFailure(SuperInfo(rs, sc1, d)))
        ELSE InitParse(rs, sc1, d, subcmd, args, x)

SuperCommandInit(rs, sc, d, args, x) ==
    IF sc[d].showDescription THEN Outcome(sc, CheckEmpty(args), <<>>, FALSE)
    ELSE IF Len(args) = 0
    THEN LET dflt == LookUp(rs, d, <<>>).action
         IN  ActionInit(rs, [sc EXCEPT ![d].action = dflt], dflt, <<>>, x)
    ELSE LET name == Head(args)
             found == LookUp(rs, d, <<name>>)
         IN  IF ~found.ok
             THEN IF ~sc[d].missingCallback
                  THEN Outcome(sc, ErrUnrecognized(sc[d].Name, name), <<>>, FALSE)
                  ELSE LET made == newActionFromCommand(rs, sc, MissingCmd)
                       IN  IF made.panic
                           THEN Outcome(sc, made.err, <<>>, TRUE)
                           ELSE Outcome([sc EXCEPT ![d].action = made.action],
                                        NoErr, <<>>, FALSE)
             ELSE InitFound(rs, sc, d, found.action, Tail(args), x)

\* IsRcPassthroughError(err)
IsRcPassthroughError(err) == err.type = "RcPassthroughError"

\* a missingCommand.Run that hands back whatever its callback returns
MissingCommandRunPlain(m, result) ==
    [events |-> <<Event("Callback", m.SuperName, m.Name, m.Args)>>,
     err |-> result]

\* missingCommand.Run: m is the missingCommand value, result the error its
\* callback returns
MissingCommandRun(m, result) ==
    [events |-> <<Event("Callback", m.SuperName, m.Name, m.Args)>>,
     err |-> IF result.type # "UnrecognizedCommand" THEN result
             ELSE MkErr("UnrecognizedCommand",
                        "unrecognized command: " \o m.SuperName \o " " \o m.Name)]

\* SuperCommand.Run(ctx) of dispatcher d
RECURSIVE SuperCommandRun(_, _, _, _)

\* Action.Run(ctx): a.Command.Run(ctx); on a nil Command a nil dereference;
\* a missingCommand calls its callback: x.missing is the missingCommand
\* value and x.callback the error its callback returns
ActionRun(rs, sc, a, x) ==
    IF a.Command = NilCmd
    THEN Outcome(sc, ErrPanic("nil pointer dereference"), <<>>, TRUE)
    ELSE IF IsSuperCommand(a.Command) THEN SuperCommandRun(rs, sc, a.Command, x)
    ELSE IF a.Command = MissingCmd
    THEN LET ran == MissingCommandRun(x.missing, x.callback)
         IN  Outcome(sc, ran.err, ran.events, FALSE)
    ELSE Outcome(sc, x.leafRun, <<Event("Run", a.Command, "", <<>>)>>, FALSE)

\* a preRun that goes on after a failed start of the log
preRunIgnoresLogStart(sc, d, x) ==
    LET started == IF sc[d].Log THEN <<Event("LogStart", d, "", <<>>)>> ELSE <<>>
        name == IF sc[d].usagePrefix # "" /\ sc[d].usagePrefix # sc[d].Name
                THEN sc[d].usagePrefix \o " " \o sc[d].Name
                ELSE sc[d].Name
        notified == IF sc[d].notifyRun THEN <<Event("NotifyRun", d, name, <<>>)>>
                    ELSE <<>>
        warned == IF sc[d].action.Replacement # ""
                  THEN <<Event("Warning", d, sc[d].action.Name, <<>>)>> ELSE <<>>
    IN  Outcome(sc, NoErr, started \o notified \o warned, FALSE)

\* SuperCommand.preRun(ctx)
preRun(sc, d, x) ==
    LET started == IF sc[d].Log THEN <<Event("LogStart", d, "", <<>>)>> ELSE <<>>
        name == IF sc[d].usagePrefix # "" /\ sc[d].usagePrefix # sc[d].Name
                THEN sc[d].usagePrefix \o " " \o sc[d].Name
                ELSE sc[d].Name
        notified == IF sc[d].notifyRun THEN <<Event("NotifyRun", d, name, <<>>)>>
                    ELSE <<>>
        warned == IF sc[d].action.Replacement # ""
                  THEN <<Event("Warning", d, sc[d].action.Name, <<>>)>> ELSE <<>>
    IN  IF sc[d].Log /\ x.logStart # NoErr
        THEN Outcome(sc, x.logStart, started, FALSE)
        ELSE Outcome(sc, NoErr, started \o notified \o warned, FALSE)

\* a run that replaces every logged error, pass-through errors included, by
\* the silent sentinel
runSilencesAll(rs, sc, d, x) ==
    LET ran == ActionRun(rs, sc, sc[d].action, x)
    IN  IF ran.panic THEN ran
        ELSE IF ran.err # NoErr /\ ran.err # ErrSilent
        THEN Outcome(sc, ErrSilent,
                     Append(ran.events, Event("LogError", d, ran.err.msg, <<>>)),
                     FALSE)
        ELSE Outcome(sc, ran.err,
                     Append(ran.events, Event("LogInfo", d, "command finished", <<>>)),
                     FALSE)

\* a run that logs the silent sentinel like any other error
runLogsSilent(rs, sc, d, x) ==
    LET ran == ActionRun(rs, sc, sc[d].action, x)
    IN  IF ran.panic THEN ran
        ELSE IF ran.err # NoErr
        THEN Outcome(sc, IF IsRcPassthroughError(ran.err) THEN ran.err ELSE ErrSilent,
                     Append(ran.events, Event("LogError", d, ran.err.msg, <<>>)),
                     FALSE)
        ELSE Outcome(sc, ran.err,
                     Append(ran.events, Event("LogInfo", d, "command finished", <<>>)),
                     FALSE)

\* SuperCommand.run(ctx)
run(rs, sc, d, x) ==
    LET ran == ActionRun(rs, sc, sc[d].action, x)
    IN  IF ran.panic THEN ran
        ELSE IF ran.err # NoErr /\ ran.err # ErrSilent
        THEN Outcome(sc, IF IsRcPassthroughError(ran.err) THEN ran.err ELSE ErrSilent,
                     Append(ran.events, Event("LogError", d, ran.err.msg, <<>>)),
                     FALSE)
        ELSE Outcome(sc, ran.err,
                     Append(ran.events, Event("LogInfo", d, "command finished", <<>>)),
                     FALSE)

SuperCommandRun(rs, sc, d, x) ==
    IF sc[d].showDescription
    THEN IF sc[d].Purpose # ""
         THEN Outcome(sc, NoErr, <<Event("Print", d, sc[d].Purpose \o "\n", <<>>)>>,
                      FALSE)
         ELSE LET called == SuperInfo(rs, sc, d)
              IN  IF called.overflow THEN Outcome(sc, ErrStackOverflow, <<>>, TRUE)
                  ELSE IF called.panic
                  THEN Outcome(sc, ErrPanic("nil pointer dereference"), <<>>, TRUE)
                  ELSE Outcome(sc, NoErr,
                               <<Event("Print", d,
                                       called.info.Name
                                           \o ": no description available\n",
                                       <<>>)>>,
                               FALSE)
    ELSE IF Validate(sc[d].action) # NoErr
    THEN Outcome(sc, ErrPanic("Run: missing subcommand; Init failed or not called"),
                 <<>>, TRUE)
    ELSE LET pre == preRun(sc, d, x)
         IN  IF pre.err # NoErr THEN pre
             ELSE LET ran == run(rs, sc, d, x)
                  IN  Outcome(sc, ran.err, pre.events \o ran.events, ran.panic)

\* SuperCommand.Register(subcmd)
Register(rs, sc, d, subcmd) ==
    IF subcmd = NilCmd THEN [rs |-> rs, err |-> NoErr, panic |-> FALSE]
    ELSE LET made == newActionFromCommand(rs, sc, subcmd)
         IN  IF made.panic
             THEN [rs |-> rs, err |-> made.err, panic |-> TRUE]
             ELSE LET res == AddWithAliases(rs, d, made.action)
                  IN  [rs |-> res.rs,
                       err |-> IF res.err = NoErr THEN NoErr ELSE ErrPanic(res.err.msg),
                       panic |-> res.err # NoErr]

\* a DeprecationCheck: nil, or what its Obsolete() and Deprecated() return
MkCheck(obsolete, deprecated, replacement) ==
    [nil |-> FALSE, obsolete |-> obsolete, deprecated |-> deprecated,
     replacement |-> replacement]
NilCheck == [nil |-> TRUE, obsolete |-> FALSE, deprecated |-> FALSE, replacement |-> ""]
ObsoleteCheck == MkCheck(TRUE, TRUE, "new")
DeprecatedCheck == MkCheck(FALSE, TRUE, "new")
CurrentCheck == MkCheck(FALSE, FALSE, "")
Checks == {NilCheck, ObsoleteCheck, DeprecatedCheck, CurrentCheck}

\* the result of a registration call: the registries afterwards, the text
\* it panicked with, and whether it panicked
Registration(rs, err, panic) == [rs |-> rs, err |-> err, panic |-> panic]

\* SuperCommand.RegisterDeprecated(subcmd, check); check.Deprecated() on a
\* nil check is a nil dereference
RegisterDeprecated(rs, sc, d, subcmd, check) ==
    IF subcmd = NilCmd THEN Registration(rs, NoErr, FALSE)
    ELSE LET made == newActionFromCommand(rs, sc, subcmd)
         IN  IF made.panic THEN Registration(rs, made.err, TRUE)
             ELSE IF ~check.nil /\ check.obsolete
             THEN Registration(rs, NoErr, FALSE)
             ELSE IF check.nil
             THEN Registration(rs, ErrPanic("nil pointer dereference"), TRUE)
             ELSE LET action == IF check.deprecated
                                THEN [made.action EXCEPT !.Replacement = check.replacement]
                                ELSE made.action
                      res == AddWithAliases(rs, d, action)
                  IN  Registration(res.rs,
                                   IF res.err = NoErr THEN NoErr ELSE ErrPanic(res.err.msg),
                                   res.err # NoErr)

\* SuperCommand.RegisterAlias(name, forName, check)
RegisterAlias(rs, d, name, forName, check) ==
    IF ~check.nil /\ check.obsolete THEN Registration(rs, NoErr, FALSE)
    ELSE LET res == AddAlias(rs, d, forName, name)
         IN  Registration(res.rs,
                          IF res.err = NoErr THEN NoErr ELSE ErrPanic(res.err.msg),
                          res.err # NoErr)

\* SuperCommand.RegisterSuperAlias(name, super, forName, check);
\* action.Command.IsSuperCommand() on the zero Action is a nil dereference
RegisterSuperAlias(rs, d, name, super, forName, check) ==
    IF ~check.nil /\ check.obsolete THEN Registration(rs, NoErr, FALSE)
    ELSE LET aliased == super \o " " \o forName
             found == LookUp(rs, d, <<super, forName>>)
         IN  IF ~found.ok
             THEN IF found.action.Command = NilCmd
                  THEN Registration(rs, ErrPanic("nil pointer dereference"), TRUE)
                  ELSE IF ~IsSuperCommand(found.action.Command)
                  THEN Registration(rs, ErrPanic(Quote(super) \o " is not a SuperCommand"),
                                    TRUE)
                  ELSE Registration(rs, ErrPanic(Quote(aliased)
                                           \o " not found when registering alias"),
                                    TRUE)
             ELSE LET action == [NewAlias(found.action, name)
                                     EXCEPT !.AliasedName = aliased]
                      res == Add(rs, d, action)
                  IN  Registration(res.rs,
                                   IF res.err = NoErr THEN NoErr ELSE ErrPanic(res.err.msg),
                                   res.err # NoErr)

(***************************************************************************)
(* Help topics (topic.go)                                                  *)
(***************************************************************************)
\* newTopic(name, short, long, aliases...); the texts play no part in the store
newTopic(name, aliases) == [name |-> name, aliases |-> aliases]
ZeroTopic == newTopic("", <<>>)

\* newTopics(): the store with no topic
EmptyTopics == [order |-> <<>>, topics |-> EmptyMap, aliases |-> EmptyMap]

ErrTopicAdded(name) == MkErr("error", "help topic already added: " \o name)
ErrTopicNotFound(name) == MkErr("error", "topic " \o Quote(name) \o " not found")
ErrTopicAliasAdded(alias) == MkErr("error", "topic " \o Quote(alias) \o " already added")

\* topics.lookUp(name): seen holds the aliases followed so far; a chain of
\* aliases that comes back to one of them is followed without end
RECURSIVE topicsLookUpFrom(_, _, _)
topicsLookUpFrom(t, name, seen) ==
    IF name \in DOMAIN t.topics
    THEN [topic |-> t.topics[name], ok |-> TRUE, overflow |-> FALSE]
    ELSE IF name \in DOMAIN t.aliases
    THEN IF name \in seen
         THEN [topic |-> ZeroTopic, ok |-> FALSE, overflow |-> TRUE]
         ELSE topicsLookUpFrom(t, t.aliases[name], seen \cup {name})
    ELSE [topic |-> ZeroTopic, ok |-> FALSE, overflow |-> FALSE]

topicsLookUp(t, name) == topicsLookUpFrom(t, name, {})

\* the result of a call on the store: the store afterwards and the error
TopicsResult(t, err) == [t |-> t, err |-> err]

\* topics.add(topic)
topicsAdd(t, topic) ==
    LET found == topicsLookUp(t, topic.name)
    IN  IF found.overflow THEN TopicsResult(t, ErrStackOverflow)
        ELSE IF found.ok THEN TopicsResult(t, ErrTopicAdded(topic.name))
        ELSE TopicsResult([t EXCEPT !.topics = MapPut(@, topic.name, topic),
                                    !.order = Append(@, topic.name)],
                          NoErr)

\* topics.addAlias(name, alias)
topicsAddAlias(t, name, alias) ==
    IF name \notin DOMAIN t.topics THEN TopicsResult(t, ErrTopicNotFound(name))
    ELSE LET found == topicsLookUp(t, alias)
         IN  IF found.overflow THEN TopicsResult(t, ErrStackOverflow)
             ELSE IF ~found.ok THEN TopicsResult(t, ErrTopicAliasAdded(alias))
             ELSE TopicsResult([t EXCEPT !.aliases = MapPut(@, alias, name),
                                         !.order = Append(@, alias)],
                               NoErr)

\* topics.remove(name): the store afterwards and the topic returned
topicsRemove(t, name) ==
    IF name \notin DOMAIN t.topics
    THEN IF name \notin DOMAIN t.aliases
         THEN [t |-> t, topic |-> ZeroTopic]
         ELSE [t |-> [t EXCEPT !.aliases = MapDel(@, name),
                               !.order = removeString(@, name)],
               topic |-> ZeroTopic]
    ELSE [t |-> [t EXCEPT !.topics = MapDel(@, name),
                          !.order = removeString(@, name)],
          topic |-> t.topics[name]]

\* the loops of addWithAliases and removeWithAliases: t.remove(name) for
\* each of the names
RECURSIVE topicsRemoveEach(_, _)
topicsRemoveEach(t, names) ==
    IF names = <<>> THEN t
    ELSE topicsRemoveEach(topicsRemove(t, Head(names)).t, Tail(names))

\* the alias loop of topics.addWithAliases, at alias number i
RECURSIVE topicsAddAliasesFrom(_, _, _, _)
topicsAddAliasesFrom(t, topic, i, added) ==
    IF i > Len(topic.aliases) THEN TopicsResult(t, NoErr)
    ELSE LET res == topicsAddAlias(t, topic.name, topic.aliases[i])
         IN  IF res.err = ErrStackOverflow THEN res
             ELSE IF res.err # NoErr
             THEN TopicsResult(topicsRemoveEach(topicsRemove(t, topic.name).t, added),
                               res.err)
             ELSE topicsAddAliasesFrom(res.t, topic, i + 1,
                                       Append(added, topic.aliases[i]))

\* topics.addWithAliases(topic)
topicsAddWithAliases(t, topic) ==
    LET res == topicsAdd(t, topic)
    IN  IF res.err # NoErr THEN res
        ELSE topicsAddAliasesFrom(res.t, topic, 1, <<>>)

\* topics.removeWithAliases(name)
topicsRemoveWithAliases(t, name) ==
    LET removed == topicsRemove(t, name)
    IN  IF removed.topic.name = "" THEN removed
        ELSE [t |-> topicsRemoveEach(removed.t,
                        SelectSeq(removed.topic.aliases,
                                  LAMBDA alias : alias \notin DOMAIN removed.t.topics)),
              topic |-> removed.topic]

(***************************************************************************)
(* The state machine.                                                      *)
(***************************************************************************)
InputActions ==
    {MkAction(n, "", c, al, rp) :
        n \in Names, c \in Cmds \cup {NilCmd},
        al \in SeqsUpTo(AliasNames, MaxAliases), rp \in Replacements}

NoOp == [op |-> "none", reg |-> NilReg, err |-> NoErr, args |-> <<>>,
         events |-> <<>>, panic |-> FALSE]

RegistryOp(op, r, err) ==
    [op |-> op, reg |-> r, err |-> err, args |-> <<>>, events |-> <<>>, panic |-> FALSE]

NoParams == [Purpose |-> "", Log |-> FALSE, UsagePrefix |-> "",
             MissingCallback |-> FALSE, NotifyRun |-> FALSE]

\* NewSuperCommand for both dispatchers and NewRegistry() for the plain one
NoRegs == ("D" :> EmptyRegistry) @@ ("S" :> EmptyRegistry) @@ ("R" :> EmptyRegistry)
InitRegs == SuperInit(SuperInit(NoRegs, "D"), "S")

Init ==
    /\ regs = InitRegs
    /\ registered = [r \in RegIds |-> regs[r].order]
    /\ disp = ("D" :> NewSuperCommand("D", NoParams))
                @@ ("S" :> NewSuperCommand("S", NoParams))
    /\ last = NoOp
    /\ GatherIdle
    /\ store = EmptyTopics

AddOp(r, action) ==
    /\ Len(regs[r].order) < MaxOrder
    /\ LET res == Add(regs, r, action)
       IN  /\ regs' = res.rs
           /\ registered' = IF res.err = NoErr
                            THEN [registered EXCEPT ![r] = Append(@, action.Name)]
                            ELSE registered
           /\ last' = RegistryOp("Add", r, res.err)
    /\ UNCHANGED <<disp, plugvars, store>>

AddAliasOp(r, name, alias) ==
    /\ Len(regs[r].order) < MaxOrder
    /\ LET res == AddAlias(regs, r, name, alias)
       IN  /\ regs' = res.rs
           /\ registered' = IF res.err = NoErr
                            THEN [registered EXCEPT ![r] = Append(@, alias)]
                            ELSE registered
           /\ last' = RegistryOp("AddAlias", r, res.err)
    /\ UNCHANGED <<disp, plugvars, store>>

AddWithAliasesOp(r, action) ==
    /\ Len(regs[r].order) + Len(action.Aliases) < MaxOrder
    /\ LET res == AddWithAliases(regs, r, action)
       IN  /\ regs' = res.rs
           /\ registered' = IF res.err = NoErr
                            THEN [registered EXCEPT
                                    ![r] = Append(@, action.Name) \o action.Aliases]
                            ELSE registered
           /\ last' = RegistryOp("AddWithAliases", r, res.err)
    /\ UNCHANGED <<disp, plugvars, store>>

\* registrations on the plain registry through the Registry API
Next ==
    \/ \E a \in {x \in InputActions : x.Aliases = <<>>} : AddOp("R", a)
    \/ \E n \in Names, al \in Names : AddAliasOp("R", n, al)
    \/ \E a \in InputActions : AddWithAliasesOp("R", a)

Spec == Init /\ [][Next]_vars

\* registrations on the registries of the dispatchers, which nest
NestedActions == {x \in InputActions : Len(x.Aliases) <= 1 /\ x.Replacement = ""}

NestedRoom(n) == Len(regs["D"].order) + Len(regs["S"].order) + n <= MaxNested

NextNested ==
    \/ \E d \in Supers, a \in {x \in NestedActions : x.Aliases = <<>>} :
          NestedRoom(1) /\ AddOp(d, a)
    \/ \E d \in Supers, n \in Names, al \in Names :
          NestedRoom(1) /\ AddAliasOp(d, n, al)
    \/ \E d \in Supers, a \in NestedActions :
          NestedRoom(1 + Len(a.Aliases)) /\ AddWithAliasesOp(d, a)

SpecNested == Init /\ [][NextNested]_vars

\* the dispatchers at work: D holds commands and the nested dispatcher S
ArgTokens == {"a", "s", "x", "--help", "--description", "--bogus"}
ArgLists == SeqsUpTo(ArgTokens, MaxArgs)
\* command lines of flags only, for the caller's parse
FlagLists == {args \in ArgLists : \A i \in 1..Len(args) : args[i] \in FlagTokens}
\* the argument lists on which Init reaches the Init of a leaf command
ReachesLeaf(args) == \E i \in 1..Len(args) : args[i] = "a"
LeafInitResults == {NoErr, ErrOther}
LeafRunResults == {NoErr, ErrSilent, ErrRc, NewRcPassthroughError(1), ErrOther}

\* the command tree the program sets up: d [help, a (alias b), s [help, b]]
SetUp(rs, sc) ==
    Register(Register(Register(rs, sc, "S", "L2").rs, sc, "D", "L1").rs,
             sc, "D", "S").rs

DispatchParams(d, cbD, cbS) ==
    [NoParams EXCEPT !.MissingCallback = IF d = "D" THEN cbD ELSE cbS,
                     !.UsagePrefix = IF d = "S" THEN "d" ELSE "",
                     !.NotifyRun = TRUE]

Constructed(cbD, cbS) ==
    ("D" :> NewSuperCommand("D", DispatchParams("D", cbD, cbS)))
        @@ ("S" :> NewSuperCommand("S", DispatchParams("S", cbD, cbS)))

\* the purposes the outer dispatcher is constructed with; it logs
Purposes == {"", "run things"}

InitDispatch ==
    /\ disp \in {[Constructed(cbD, cbS) EXCEPT !["D"].Purpose = p, !["D"].Log = TRUE] :
                    cbD \in BOOLEAN, cbS \in BOOLEAN, p \in Purposes}
    /\ regs = SetUp(InitRegs, disp)
    /\ registered = [r \in RegIds |-> regs[r].order]
    /\ last = NoOp
    /\ GatherIdle
    /\ store = EmptyTopics

SetFlagsOp(d) ==
    /\ LET res == SetFlags(regs, disp, d)
       IN  /\ disp' = res.sc
           /\ last' = [op |-> "SetFlags", reg |-> d, err |-> res.err, args |-> <<>>,
                       events |-> res.events, panic |-> res.panic]
    /\ UNCHANGED <<regs, registered, plugvars, store>>

\* the caller's parse of the command line against the flags of SetFlags
ParseOp(d, args) ==
    /\ disp[d].commonflags
    /\ LET parsed == ParseFlags(AllowInterspersedFlags(d), args, {}, <<>>)
       IN  /\ disp' = SetSeen(disp, d, parsed.seen)
           /\ last' = [op |-> "Parse", reg |-> d, err |-> parsed.err,
                       args |-> parsed.args, events |-> <<>>, panic |-> FALSE]
    /\ UNCHANGED <<regs, registered, plugvars, store>>

InitOp(d, args, leafInit) ==
    /\ leafInit # NoErr => ReachesLeaf(args)
    /\ LET res == SuperCommandInit(regs, disp, d, args, [leafInit |-> leafInit])
       IN  /\ disp' = res.sc
           /\ last' = [op |-> "Init", reg |-> d, err |-> res.err, args |-> <<>>,
                       events |-> res.events, panic |-> res.panic]
    /\ UNCHANGED <<regs, registered, plugvars, store>>

RunOp(d, leafRun, logStart) ==
    LET res == SuperCommandRun(regs, disp, d, [leafRun |-> leafRun, logStart |-> logStart])
    IN  /\ disp' = res.sc
        /\ last' = [op |-> "Run", reg |-> d, err |-> res.err, args |-> <<>>,
                    events |-> res.events, panic |-> res.panic]
        /\ UNCHANGED <<regs, registered, plugvars, store>>

NextDispatch ==
    \/ SetFlagsOp("D")
    \/ \E args \in FlagLists : ParseOp("D", args)
    \/ \E args \in ArgLists, e \in LeafInitResults : InitOp("D", args, e)
    \/ \E e \in LeafRunResults : RunOp("D", e, NoErr)

SpecDispatch == InitDispatch /\ [][NextDispatch]_vars

\* the dispatchers set up by registration calls, then initialized and run
\* most names the outer dispatcher's registry holds
MaxRegistered == 5

\* the outer dispatcher, with or without a log, holds the nested one, which
\* holds the command b; the command a is yet to be registered
InitRegister ==
    /\ disp \in {[Constructed(FALSE, FALSE) EXCEPT !["D"].Log = lg] : lg \in BOOLEAN}
    /\ regs = Register(Register(InitRegs, disp, "S", "L2").rs, disp, "D", "S").rs
    /\ registered = [r \in RegIds |-> regs[r].order]
    /\ last = NoOp
    /\ GatherIdle
    /\ store = EmptyTopics

\* the registry of dispatcher d has room for n more names
SettingUp(d, n) == Len(regs[d].order) + n <= MaxRegistered

\* a registration call on dispatcher d returned or panicked with res
RegistrationOp(op, d, res) ==
    /\ regs' = res.rs
    /\ registered' = [registered EXCEPT ![d] = res.rs[d].order]
    /\ last' = [op |-> op, reg |-> d, err |-> res.err, args |-> <<>>,
                events |-> <<>>, panic |-> res.panic]
    /\ UNCHANGED <<disp, plugvars, store>>

RegisterOp(d, subcmd) ==
    /\ SettingUp(d, 1 + Len(InfoOf(subcmd).Aliases))
    /\ RegistrationOp("Register", d, Register(regs, disp, d, subcmd))

RegisterDeprecatedOp(d, subcmd, check) ==
    /\ SettingUp(d, 1 + Len(InfoOf(subcmd).Aliases))
    /\ RegistrationOp("RegisterDeprecated", d,
                      RegisterDeprecated(regs, disp, d, subcmd, check))

RegisterAliasOp(d, name, forName, check) ==
    /\ SettingUp(d, 1)
    /\ RegistrationOp("RegisterAlias", d, RegisterAlias(regs, d, name, forName, check))

RegisterSuperAliasOp(d, name, super, forName, check) ==
    /\ SettingUp(d, 1)
    /\ RegistrationOp("RegisterSuperAlias", d,
                      RegisterSuperAlias(regs, d, name, super, forName, check))

\* the names, and the command lines, of this set-up
AliasArgs == {"a", "c"}
SuperArgs == {"s", "a", "x"}
ForArgs == {"a", "b", "x"}
SuperForArgs == {"b", "x"}
\* a token follows only the name of the nested dispatcher, which looks it up,
\* or the name a, whose command takes it as its argument
RegisterArgLists ==
    {args \in SeqsUpTo({"a", "b", "c", "s"}, MaxArgs) :
        \A i \in 2..Len(args) : args[i - 1] \in {"a", "s"}}
LogStartResults == {NoErr, ErrOther}

NextRegister ==
    \/ RegisterOp("D", "L1")
    \/ \E check \in Checks : RegisterDeprecatedOp("D", "L1", check)
    \/ \E forName \in ForArgs, check \in {NilCheck, ObsoleteCheck} :
          RegisterAliasOp("D", "c", forName, check)
    \/ \E name \in AliasArgs, super \in SuperArgs, forName \in SuperForArgs,
          check \in {NilCheck, ObsoleteCheck} :
          RegisterSuperAliasOp("D", name, super, forName, check)
    \/ SetFlagsOp("D")
    \/ \E args \in RegisterArgLists : InitOp("D", args, NoErr)
    \/ \E e \in {NoErr, ErrOther}, started \in LogStartResults : RunOp("D", e, started)

SpecRegister == InitRegister /\ [][NextRegister]_vars

\* the help-topic store, filled and emptied through its methods
\* longest order list a call on the store is still attempted on
MaxTopicOrder == 3
\* longest alias list of a topic handed to the store
MaxTopicAliases == 2

TopicNames == {"a", "b", "c"}
InputTopics ==
    {newTopic(n, al) : n \in TopicNames, al \in SeqsUpTo(TopicNames, MaxTopicAliases)}

InitTopics ==
    /\ regs = InitRegs
    /\ registered = [r \in RegIds |-> regs[r].order]
    /\ disp = ("D" :> NewSuperCommand("D", NoParams))
                @@ ("S" :> NewSuperCommand("S", NoParams))
    /\ last = NoOp
    /\ GatherIdle
    /\ store = EmptyTopics

\* the process is alive: no call has overflowed the stack
TopicsAlive == last.err # ErrStackOverflow

\* a call on the store: what it leaves in the store and what it returns
TopicsOp(op, t, err) ==
    /\ store' = t
    /\ last' = [RegistryOp(op, NilReg, err) EXCEPT !.panic = (err = ErrStackOverflow)]
    /\ UNCHANGED <<regs, registered, disp, plugvars>>

TopicAddOp(topic) ==
    /\ TopicsAlive
    /\ Len(store.order) < MaxTopicOrder
    /\ LET res == topicsAdd(store, topic)
       IN  TopicsOp("add", res.t, res.err)

TopicAddAliasOp(name, alias) ==
    /\ TopicsAlive
    /\ Len(store.order) < MaxTopicOrder
    /\ LET res == topicsAddAlias(store, name, alias)
       IN  TopicsOp("addAlias", res.t, res.err)

TopicAddWithAliasesOp(topic) ==
    /\ TopicsAlive
    /\ Len(store.order) + Len(topic.aliases) < MaxTopicOrder
    /\ LET res == topicsAddWithAliases(store, topic)
       IN  TopicsOp("addWithAliases", res.t, res.err)

TopicRemoveOp(name) ==
    /\ TopicsAlive
    /\ TopicsOp("remove", topicsRemove(store, name).t, NoErr)

TopicRemoveWithAliasesOp(name) ==
    /\ TopicsAlive
    /\ TopicsOp("removeWithAliases", topicsRemoveWithAliases(store, name).t, NoErr)

NextTopics ==
    \/ \E topic \in {x \in InputTopics : x.aliases = <<>>} : TopicAddOp(topic)
    \/ \E name \in TopicNames, alias \in TopicNames : TopicAddAliasOp(name, alias)
    \/ \E topic \in InputTopics : TopicAddWithAliasesOp(topic)
    \/ \E name \in TopicNames : TopicRemoveOp(name)
    \/ \E name \in TopicNames : TopicRemoveWithAliasesOp(name)

SpecTopics == InitTopics /\ [][NextTopics]_vars

(***************************************************************************)
(* Claims about the Registry.                                              *)
(***************************************************************************)
\* every name held by a registry, canonical or alias
Keys(reg) == (DOMAIN reg.actions) \cup (DOMAIN reg.aliases)

\* the names a single-element LookUp is compared on
ProbeNames == Names \cup {"help"}

\* C1: an AddWithAliases call that returns an error leaves the order list,
\* the canonical action map and the alias map exactly as before the call.
C1_AddWithAliasesAtomic ==
    [][\A r \in RegIds, a \in InputActions :
          (AddWithAliasesOp(r, a) /\ last'.err # NoErr) => regs'[r] = regs[r]]_vars

\* Names() and the result of LookUp for every name, as a caller sees them
ViewOf(rs, r) ==
    [names |-> NamesOf(rs[r]),
     found |-> [n \in ProbeNames |-> LookUp(rs, r, <<n>>)]]

\* C2: Add of an action whose name the registry holds already, as a key of
\* the canonical map or of the alias map, and AddAlias of an alias the
\* registry holds already or for a name with no canonical entry, return an
\* error and leave Names() and the result of LookUp for every name as before
\* the call.
C2_CollisionRejected ==
    \A r \in RegIds :
        /\ \A a \in {x \in InputActions : x.Aliases = <<>>} :
              a.Name \in Keys(regs[r])
              => /\ Add(regs, r, a).err # NoErr
                 /\ ViewOf(Add(regs, r, a).rs, r) = ViewOf(regs, r)
        /\ \A n \in Names, al \in Names :
              (al \in Keys(regs[r]) \/ n \notin DOMAIN regs[r].actions)
              => /\ AddAlias(regs, r, n, al).err # NoErr
                 /\ ViewOf(AddAlias(regs, r, n, al).rs, r) = ViewOf(regs, r)

\* C3: Names() is exactly the names registered by the successful calls, in
\* registration order; names of failed calls do not appear.
C3_NamesAreRegistered ==
    \A r \in RegIds : NamesOf(regs[r]) = registered[r]

\* C7: the order list holds no name twice and holds exactly the keys of the
\* canonical map and of the alias map.
C7_OrderInvariant ==
    \A r \in RegIds :
        /\ \A i, j \in 1..Len(regs[r].order) :
              regs[r].order[i] = regs[r].order[j] => i = j
        /\ Range(regs[r].order) = Keys(regs[r])

\* C8: the action found under an alias differs from the canonical action
\* only in Name (the alias) and AliasedName (the canonical name).
C8_AliasViewKeepsFields ==
    \A r \in RegIds : \A n \in (DOMAIN regs[r].aliases) \ (DOMAIN regs[r].actions) :
        LET canonical == regs[r].actions[regs[r].aliases[n]]
            view == LookUp(regs, r, <<n>>)
        IN  view.ok => view.action = [canonical EXCEPT !.Name = n,
                                                       !.AliasedName = canonical.Name]

\* C6: LookUp() returns the default action of a registry built with one and
\* finds nothing in a registry built without; a name never registered is
\* not found.
C6_DefaultAndMissing ==
    /\ \A d \in Supers :
          LookUp(regs, d, <<>>) =
              [action |-> MkAction("help", "", HelpCmd(d), <<>>, ""), ok |-> TRUE]
    /\ ~LookUp(regs, "R", <<>>).ok
    /\ \A r \in RegIds : \A n \in ProbeNames \ Range(registered[r]) :
          ~LookUp(regs, r, <<n>>).ok

(***************************************************************************)
(* Claims about nested resolution.                                         *)
(***************************************************************************)
Paths == SeqsUpTo(ProbeNames, MaxPath) \ {<<>>}

\* the commands that are not dispatchers
IsLeaf(cmd) == cmd \in Leaves \cup {HelpCmd(d) : d \in Supers}

\* Full resolution of a path: every element but the last names (as a
\* canonical name or an alias) a nested dispatcher, in whose registry the
\* rest of the path is resolved; the last element is looked up there.
RECURSIVE Resolve(_, _, _)
Resolve(rs, r, path) ==
    IF Len(path) = 1 THEN LookUp(rs, r, path)
    ELSE LET n == Head(path)
             holds == n \in Keys(rs[r]) /\ lookUp(rs[r], n).ok
             cmd == lookUp(rs[r], n).action.Command
         IN  IF holds /\ IsSuperCommand(cmd)
             THEN Resolve(rs, Subcmds(cmd), Tail(path))
             ELSE [action |-> ZeroAction, ok |-> FALSE]

\* C4: a path of two or more names that leads through nested dispatchers
\* to a leaf is found, and the action returned wraps the leaf's command.
C4_NestedPathResolves ==
    \A r \in RegIds : \A path \in Paths :
        (Len(path) >= 2 /\ Resolve(regs, r, path).ok
            /\ IsLeaf(Resolve(regs, r, path).action.Command))
        => /\ LookUp(regs, r, path).ok
           /\ LookUp(regs, r, path).action.Command
                  = Resolve(regs, r, path).action.Command

\* a three-name path through two nested dispatchers reaches a leaf, the
\* middle name being an alias
C4_Witness ==
    \E path \in Paths :
        /\ Len(path) = 3
        /\ Resolve(regs, "D", path).ok
        /\ IsLeaf(Resolve(regs, "D", path).action.Command)
        /\ lookUp(regs["D"], path[1]).action.Command = "S"
        /\ path[2] \in DOMAIN regs["S"].aliases

\* C5: a path of two or more names that does not resolve in full is not
\* found; LookUp never answers with the action of a proper prefix.
C5_PartialPathNotFound ==
    \A r \in RegIds : \A path \in Paths :
        (Len(path) >= 2 /\ ~Resolve(regs, r, path).ok)
        => ~LookUp(regs, r, path).ok

(***************************************************************************)
(* Claims about Init on a name the registry does not hold.                 *)
(***************************************************************************)
\* the error C10 expects: the message names the dispatcher and the candidate
Unrecognized(d, name) ==
    [type |-> "error",
     msg |-> "unrecognized command: " \o disp[d].Name \o " " \o name]

\* the argument lists whose first argument dispatcher d does not resolve
Misses(d) ==
    {args \in ArgLists : args # <<>> /\ ~LookUp(regs, d, <<Head(args)>>).ok}

\* Init(args) of dispatcher d in the current state
InitNow(d, args) == SuperCommandInit(regs, disp, d, args, [leafInit |-> NoErr])

\* Run of dispatcher d right after that Init, the callback returning result
RunAfterInit(d, args, result) ==
    LET sc == InitNow(d, args).sc
    IN  IF sc[d].action.Command = MissingCmd
        THEN MissingCommandRun([SuperName |-> sc[d].Name, Name |-> Head(args),
                                Args |-> Tail(args)], result)
        ELSE [events |-> SuperCommandRun(regs, sc, d, [leafRun |-> result,
                                                 logStart |-> NoErr]).events,
              err |-> NoErr]

\* C9: with a missing-command callback configured and the description flag
\* not set, Init on a first argument the registry does not hold returns
\* success without calling the callback and leaves a valid action, so that
\* the Run that follows calls the callback exactly once with that name and
\* the remaining arguments.
C9_MissDeferredToRun ==
    \A d \in Supers : \A args \in Misses(d) :
        (disp[d].missingCallback /\ ~disp[d].showDescription)
        => /\ ~InitNow(d, args).panic
           /\ InitNow(d, args).err = NoErr
           /\ InitNow(d, args).events = <<>>
           /\ Validate(InitNow(d, args).sc[d].action) = NoErr
           /\ RunAfterInit(d, args, NoErr).events
                  = <<Event("Callback", disp[d].Name, Head(args), Tail(args))>>

\* C10 as stated: with no missing-command callback, Init on a first argument
\* the registry does not hold fails with the unrecognized-command error that
\* names the dispatcher and the candidate, resolves no action and initializes
\* no command.
C10_MissFailsAsStated ==
    \A d \in Supers : \A args \in Misses(d) :
        ~disp[d].missingCallback
        => /\ InitNow(d, args).err = Unrecognized(d, Head(args))
           /\ InitNow(d, args).sc = disp
           /\ InitNow(d, args).events = <<>>

\* C10: with no missing-command callback and the description flag not set,
\* Init on a first argument the registry does not hold fails with the
\* unrecognized-command error that names the dispatcher and the candidate,
\* resolves no action and initializes no command.
C10_MissFails ==
    \A d \in Supers : \A args \in Misses(d) :
        (~disp[d].missingCallback /\ ~disp[d].showDescription)
        => /\ ~InitNow(d, args).panic
           /\ InitNow(d, args).err = Unrecognized(d, Head(args))
           /\ InitNow(d, args).sc = disp
           /\ InitNow(d, args).events = <<>>

\* Init of the outer dispatcher, no callback configured and the description
\* flag not set, has just failed on the unregistered name x
C10_Witness ==
    /\ last.op = "Init" /\ last.reg = "D"
    /\ ~disp["D"].missingCallback /\ ~disp["D"].showDescription
    /\ disp["D"].commonflags
    /\ last.err = Unrecognized("D", "x")
    /\ last.events = <<>>

(***************************************************************************)
(* Claims about Run.                                                       *)
(***************************************************************************)
\* Run of dispatcher d in the current state, the command executed returning
\* result
RunNow(d, result) ==
    SuperCommandRun(regs, disp, d, [leafRun |-> result, logStart |-> NoErr])

\* Run of dispatcher d gets as far as executing a command
Executes(d) ==
    /\ ~disp[d].showDescription
    /\ Validate(disp[d].action) = NoErr
    /\ ~RunNow(d, NoErr).panic

\* the dispatcher whose action is the command executed when d runs
RECURSIVE Innermost(_)
Innermost(d) ==
    IF IsSuperCommand(disp[d].action.Command) /\ disp[d].action.Command # d
    THEN Innermost(disp[d].action.Command)
    ELSE d

\* the exit statuses of a child process that failed
ExitCodes == {1, 2}

\* the events of a sequence that log an error
LoggedErrors(events) == SelectSeq(events, LAMBDA e : e.ev = "LogError")

\* C11: a pass-through exit-code error returned by the command executed is
\* returned with the same code by missingCommand.Run and by Run of a
\* dispatcher at every nesting depth.
C11_PassThroughUnchanged ==
    /\ \A d \in Supers : \A code \in ExitCodes :
          Executes(d)
          => RunNow(d, NewRcPassthroughError(code)).err
                 = [type |-> "RcPassthroughError", msg |-> "subprocess encountered error code " \o ToString(code)]
    /\ \A name \in ArgTokens : \A args \in ArgLists : \A code \in ExitCodes :
          MissingCommandRun([SuperName |-> "d", Name |-> name, Args |-> args],
                            NewRcPassthroughError(code)).err
              = [type |-> "RcPassthroughError", msg |-> "subprocess encountered error code " \o ToString(code)]

\* Run of the outer dispatcher has just returned the pass-through error of
\* the command executed by the nested dispatcher
C11_Witness ==
    /\ last.op = "Run" /\ last.reg = "D"
    /\ disp["D"].action.Command = "S"
    /\ \E i \in 1..Len(last.events) :
          last.events[i].ev = "Run" /\ last.events[i].who = HelpCmd("S")
    /\ last.err = [type |-> "RcPassthroughError", msg |-> "subprocess encountered error code 1"]

\* C12: an error of the command executed that is neither the silent
\* sentinel nor a pass-through error is logged once, by the innermost
\* dispatcher, and Run of every dispatcher returns the silent sentinel.
C12_LoggedOnceThenSilent ==
    \A d \in Supers :
        Executes(d)
        => /\ RunNow(d, ErrOther).err = [type |-> "ErrSilent",
                                         msg |-> "cmd: error out silently"]
           /\ LoggedErrors(RunNow(d, ErrOther).events)
                  = <<Event("LogError", Innermost(d), ErrOther.msg, <<>>)>>

\* Run of the outer dispatcher has just returned the silent sentinel after
\* the nested dispatcher logged the error of the command it executed
C12_Witness ==
    /\ last.op = "Run" /\ last.reg = "D"
    /\ disp["D"].action.Command = "S"
    /\ last.err = ErrSilent
    /\ LoggedErrors(last.events) = <<Event("LogError", "S", ErrOther.msg, <<>>)>>

\* C20: with the description flag set, Run writes the purpose and a newline,
\* or "<name>: no description available" with the dispatcher's name when no
\* purpose is configured, returns success, and neither starts logging nor
\* notifies nor initializes or runs a command.
C20_DescriptionOnly ==
    \A d \in Supers : \A result \in LeafRunResults :
        disp[d].showDescription
        => /\ RunNow(d, result).err = NoErr
           /\ ~RunNow(d, result).panic
           /\ RunNow(d, result).sc = disp
           /\ RunNow(d, result).events
                  = <<Event("Print", d,
                            IF disp[d].Purpose # "" THEN disp[d].Purpose \o "\n"
                            ELSE disp[d].Name \o ": no description available\n",
                            <<>>)>>

(***************************************************************************)
(* The Plugin subsystem: discovery.                                        *)
(***************************************************************************)
\* longest list of directories handed to FindAll
MaxDirs == 2

\* the bytes of file names, in byte order
Alphabet == <<"-", "a", "b", "p">>
Rank(c) == CHOOSE i \in 1..Len(Alphabet) : Alphabet[i] = c

\* a < b on strings (sequences of bytes), the order of sort.Strings
RECURSIVE StringLess(_, _)
StringLess(a, b) ==
    IF b = <<>> THEN FALSE
    ELSE IF a = <<>> THEN TRUE
    ELSE IF Head(a) = Head(b) THEN StringLess(Tail(a), Tail(b))
    ELSE Rank(Head(a)) < Rank(Head(b))

\* sort.Strings(items)
RECURSIVE InsertSorted(_, _)
InsertSorted(sorted, x) ==
    IF sorted = <<>> THEN <<x>>
    ELSE IF StringLess(x, Head(sorted)) THEN <<x>> \o sorted
    ELSE <<Head(sorted)>> \o InsertSorted(Tail(sorted), x)

RECURSIVE SortStrings(_)
SortStrings(items) ==
    IF items = <<>> THEN <<>>
    ELSE InsertSorted(SortStrings(Tail(items)), Head(items))

\* strings.HasPrefix(str, prefix)
HasPrefix(str, prefix) ==
    Len(str) >= Len(prefix) /\ SubSeq(str, 1, Len(prefix)) = prefix

\* Plugins.Prefix
PluginPrefix == <<"p", "-">>

\* the file names of the model: two with the prefix, one without
FileNames == {<<"p", "-", "a">>, <<"p", "-", "b">>, <<"p", "a">>}

\* a test that looks at the owner's execute bit alone
OwnerExecBit(mode) == (mode \div 64) % 2 = 1

\* (entry.Mode() & 0111) != 0
HasExecBit(mode) ==
    (mode % 2 = 1) \/ ((mode \div 8) % 2 = 1) \/ ((mode \div 64) % 2 = 1)

Entry(name, mode) == [name |-> name, mode |-> mode]

\* what ioutil.ReadDir lists for a directory, sorted by file name; the modes
\* are 0744 and 0644, 0654 and 0645, 0744
Listings ==
    {a \o b \o c :
        a \in {<<>>, <<Entry(<<"p", "-", "a">>, 484)>>, <<Entry(<<"p", "-", "a">>, 420)>>},
        b \in {<<>>, <<Entry(<<"p", "-", "b">>, 428)>>, <<Entry(<<"p", "-", "b">>, 421)>>},
        c \in {<<>>, <<Entry(<<"p", "a">>, 484)>>}}

\* the directories that can be read, and the names a path can list
ReadableDirs == {"d1", "d2"}
DirNames == ReadableDirs \cup {"nodir"}
FileSystems == [ReadableDirs -> Listings]

\* ioutil.ReadDir(name)
ReadDir(fs, name) ==
    IF name \in DOMAIN fs THEN [ok |-> TRUE, entries |-> fs[name]]
    ELSE [ok |-> FALSE, entries |-> <<>>]

\* the path argument of FindAll: nil, or a list of directories
NilPath == [nil |-> TRUE, dirs |-> <<>>]
PathOf(dirs) == [nil |-> FALSE, dirs |-> dirs]
PathArgs == {NilPath} \cup {PathOf(dirs) : dirs \in SeqsUpTo(DirNames, MaxDirs)}

\* filepath.SplitList(os.Getenv("PATH"))
PathEnv == <<"d1", "d2">>

\* the inner loop of FindAll over the entries of one directory
RECURSIVE FindInEntries(_, _)
FindInEntries(entries, plugins) ==
    IF entries = <<>> THEN plugins
    ELSE FindInEntries(Tail(entries),
             IF HasPrefix(Head(entries).name, PluginPrefix)
                    /\ HasExecBit(Head(entries).mode)
             THEN Append(plugins, Head(entries).name) ELSE plugins)

\* the outer loop of FindAll over the directories
RECURSIVE FindInDirs(_, _, _)
FindInDirs(fs, dirs, plugins) ==
    IF dirs = <<>> THEN plugins
    ELSE LET read == ReadDir(fs, Head(dirs))
         IN  IF ~read.ok THEN FindInDirs(fs, Tail(dirs), plugins)
             ELSE FindInDirs(fs, Tail(dirs), FindInEntries(read.entries, plugins))

\* Plugins.FindAll(path)
FindAll(fs, path) ==
    SortStrings(FindInDirs(fs, IF path.nil THEN PathEnv ELSE path.dirs, <<>>))

\* the calls of FindAll: a file system and a path
FindAllCalls ==
    {[op |-> "call FindAll", fs |-> fs, path |-> path] :
        fs \in FileSystems, path \in PathArgs}

\* the pending call of FindAll returns
FindAllOp ==
    /\ last.op = "call FindAll"
    /\ last' = [op |-> "FindAll", fs |-> last.fs, path |-> last.path,
                result |-> FindAll(last.fs, last.path)]
    /\ UNCHANGED <<regs, registered, disp, plugvars, store>>

(***************************************************************************)
(* The Plugin subsystem: running a plugin.                                 *)
(***************************************************************************)
\* a string of bytes as a string value
RECURSIVE Str(_)
Str(bytes) == IF bytes = <<>> THEN "" ELSE Head(bytes) \o Str(Tail(bytes))

\* Plugins.IgnoredFlags of the configurations modelled
IgnoredFlagLists == {<<>>, <<"--bogus">>, <<"x">>}

\* an extraction that scans on from the value it has just copied
RECURSIVE extractIgnoredArgsRescan(_, _)
extractIgnoredArgsRescan(ignoredFlags, args) ==
    IF args = <<>> THEN <<>>
    ELSE IF Head(args) \in Range(ignoredFlags)
    THEN IF Len(args) >= 2
         THEN <<args[1], args[2]>> \o extractIgnoredArgsRescan(ignoredFlags, Tail(args))
         ELSE <<args[1]>>
    ELSE extractIgnoredArgsRescan(ignoredFlags, Tail(args))

\* Plugins.extractIgnoredArgs(args)
RECURSIVE extractIgnoredArgs(_, _)
extractIgnoredArgs(ignoredFlags, args) ==
    IF args = <<>> THEN <<>>
    ELSE IF Head(args) \in Range(ignoredFlags)
    THEN IF Len(args) >= 2
         THEN <<args[1], args[2]>>
                  \o extractIgnoredArgs(ignoredFlags, SubSeq(args, 3, Len(args)))
         ELSE <<args[1]>>
    ELSE extractIgnoredArgs(ignoredFlags, Tail(args))

\* flags.Parse(false, args) on the flag set of a PluginCommand, which
\* declares no flag
ParsePluginFlags(args) ==
    IF args # <<>> /\ Head(args) \in FlagTokens THEN ErrFlag(Head(args)) ELSE NoErr

\* how command.Run() of os/exec ends: the child exits with a status, is
\* killed by a signal, is not found by the path lookup (*exec.Error), or is
\* found but cannot be started (*os.PathError of fork/exec)
ChildOutcomes ==
    {[kind |-> "exit", code |-> c] : c \in 0..2}
        \cup {[kind |-> k, code |-> 0] : k \in {"signaled", "notfound", "startfail"}}

ErrExit == MkErr("exec.ExitError", "signal: killed")
ErrExec == MkErr("exec.Error", "executable file not found in $PATH")
ErrPath == MkErr("os.PathError", "fork/exec: exec format error")

\* &UnrecognizedCommand{Name: name}
UnrecognizedCommand(name) ==
    MkErr("UnrecognizedCommand", "unrecognized command: " \o name)

\* PluginCommand.Run(ctx) of the command named name, after Init(args)
PluginCommandRun(name, args, child) ==
    [events |-> <<Event("Exec", name, "", args)>>,
     err |-> IF child.kind = "exit"
             THEN IF child.code = 0 THEN NoErr ELSE NewRcPassthroughError(child.code)
             ELSE IF child.kind = "signaled" THEN ErrExit
             ELSE IF child.kind = "notfound" THEN ErrExec
             ELSE ErrPath]

\* Plugins.RunPlugin(ctx, subcommand, args)
RunPlugin(ignoredFlags, subcommand, args, child) ==
    LET cmdName == Str(PluginPrefix) \o subcommand
        parsed == ParsePluginFlags(extractIgnoredArgs(ignoredFlags, args))
        ran == PluginCommandRun(cmdName, args, child)
    IN  IF parsed # NoErr THEN [events |-> <<>>, err |-> parsed]
        ELSE IF ran.err.type = "exec.Error"
        THEN [events |-> ran.events, err |-> UnrecognizedCommand(subcommand)]
        ELSE ran

\* the calls of RunPlugin
RunPluginCalls ==
    {[op |-> "call RunPlugin", ignoredFlags |-> ig, subcommand |-> sub,
      args |-> args, child |-> child] :
        ig \in IgnoredFlagLists, sub \in {"a", "x"},
        args \in ArgLists, child \in ChildOutcomes}

\* the pending call of RunPlugin returns
RunPluginOp ==
    /\ last.op = "call RunPlugin"
    /\ LET res == RunPlugin(last.ignoredFlags, last.subcommand, last.args, last.child)
       IN  last' = [op |-> "RunPlugin", ignoredFlags |-> last.ignoredFlags,
                    subcommand |-> last.subcommand, args |-> last.args,
                    child |-> last.child, err |-> res.err, events |-> res.events]
    /\ UNCHANGED <<regs, registered, disp, plugvars, store>>

\* what a missing-command callback can return
CallbackResults ==
    {NoErr, ErrSilent, ErrOther, NewRcPassthroughError(1), NewRcPassthroughError(2),
     UnrecognizedCommand("a"), UnrecognizedCommand("x")}

\* the calls of missingCommand.Run: the missingCommand value, and what its
\* callback returns
MissingRunCalls ==
    {[op |-> "call missingCommand.Run",
      m |-> [SuperName |-> super, Name |-> name, Args |-> args],
      result |-> result] :
        super \in {"d", "s"}, name \in {"a", "x"}, args \in ArgLists,
        result \in CallbackResults}

\* the pending call of missingCommand.Run returns
MissingRunOp ==
    /\ last.op = "call missingCommand.Run"
    /\ LET res == MissingCommandRun(last.m, last.result)
       IN  last' = [op |-> "missingCommand.Run", m |-> last.m,
                    result |-> last.result, err |-> res.err, events |-> res.events]
    /\ UNCHANGED <<regs, registered, disp, plugvars, store>>

\* longest argument list handed to extractIgnoredArgs
MaxScan == 3

\* the tokens of those argument lists, and the lists of recognized flags
ScanTokens == {"-e", "--bogus", "x"}
ScanFlagLists == IgnoredFlagLists \cup {<<"-e">>, <<"-e", "--bogus">>, <<"-e", "-e">>}

\* the calls of extractIgnoredArgs
ExtractCalls ==
    {[op |-> "call extractIgnoredArgs", ignoredFlags |-> ig, args |-> args] :
        ig \in ScanFlagLists, args \in SeqsUpTo(ScanTokens, MaxScan)}

\* the pending call of extractIgnoredArgs returns
ExtractOp ==
    /\ last.op = "call extractIgnoredArgs"
    /\ last' = [op |-> "extractIgnoredArgs", ignoredFlags |-> last.ignoredFlags,
                args |-> last.args,
                result |-> extractIgnoredArgs(last.ignoredFlags, last.args)]
    /\ UNCHANGED <<regs, registered, disp, plugvars, store>>

\* one call into the Plugin subsystem or of a missingCommand
InitPlugin ==
    /\ regs = InitRegs
    /\ registered = [r \in RegIds |-> regs[r].order]
    /\ disp = ("D" :> NewSuperCommand("D", NoParams))
                @@ ("S" :> NewSuperCommand("S", NoParams))
    /\ last \in FindAllCalls \cup RunPluginCalls \cup MissingRunCalls \cup ExtractCalls
    /\ GatherIdle
    /\ store = EmptyTopics

NextPlugin ==
    \/ FindAllOp
    \/ RunPluginOp
    \/ MissingRunOp
    \/ ExtractOp

SpecPlugin == InitPlugin /\ [][NextPlugin]_vars

(***************************************************************************)
(* The Plugin subsystem: gathering the descriptions.                       *)
(***************************************************************************)
\* the most plugins a Descriptions call of the model finds
MaxPlugins == 3

\* how exec.Command(plugin, "--description").CombinedOutput() ends: the
\* child exits with status 0, exits with status 1, cannot be started, or
\* never ends
ProbeOutcomes == {"ok", "exit1", "nospawn", "hang"}

\* what a plugin writes when run with --description
Output(plugin) ==
    IF plugin = <<"p", "-", "a">> THEN <<"A", " ", "d", "\n", "x">> ELSE <<"B">>

\* a first line that keeps the whole output
RECURSIVE FirstLineWhole(_)
FirstLineWhole(output) ==
    IF output = <<>> THEN <<>>
    ELSE <<Head(output)>> \o FirstLineWhole(Tail(output))

\* strings.SplitN(string(output), "\n", 2)[0]
RECURSIVE FirstLine(_)
FirstLine(output) ==
    IF output = <<>> \/ Head(output) = "\n" THEN <<>>
    ELSE <<Head(output)>> \o FirstLine(Tail(output))

\* the pluginDescription a probe sends
pluginDescription(plugin, outcome) ==
    [name |-> plugin,
     description |-> IF outcome = "ok" THEN Str(FirstLine(Output(plugin)))
                     ELSE "error occurred running '" \o Str(plugin)
                              \o " --description'"]

\* results[result.name[len(p.Prefix):]] = result.description
Gathered(results, result) ==
    (Str(SubSeq(result.name, Len(PluginPrefix) + 1, Len(result.name)))
         :> result.description) @@ results

\* a send that puts the result into the channel twice
SentTwice(channel, result) == Append(Append(channel, result), result)

\* description <- result
Sent(channel, result) == Append(channel, result)

\* a caller that waits for the result of each probe right after starting it
GatherPcSequential(launched, received, total) ==
    IF received < launched THEN "gather"
    ELSE IF launched < total THEN "launch"
    ELSE "done"

\* a caller that returns one result early
GatherPcEarly(launched, received, total) ==
    IF launched < total THEN "launch"
    ELSE IF received + 1 < total THEN "gather"
    ELSE "done"

\* where Descriptions stands after launching and receiving so many of its
\* total probes: in the loop of go statements, in the loop of receives, or
\* at its return
GatherPc(launched, received, total) ==
    IF launched < total THEN "launch"
    ELSE IF received < total THEN "gather"
    ELSE "done"

\* the probe that probe i of n waits for when the plugins depend on each
\* other in a cycle
Dep(i, n) == (i % n) + 1

\* Descriptions is called on a file system whose probes will end as in
\* outcomes: FindAll(nil), the return for no plugins, the channel of
\* len(plugins)
DescriptionsOp ==
    /\ gather.pc = "idle"
    /\ \E fs \in FileSystems, cyclic \in BOOLEAN :
         LET plugins == FindAll(fs, NilPath)
             n == Len(plugins)
         IN  /\ n <= MaxPlugins
             /\ \E outcomes \in [1..n -> ProbeOutcomes] :
                  gather' = [pc |-> GatherPc(0, 0, n), plugins |-> plugins,
                             outcomes |-> outcomes, cyclic |-> cyclic,
                             launched |-> 0, received |-> 0, logged |-> 0,
                             results |-> <<>>]
             /\ probes' = [i \in 1..n |-> "none"]
             /\ chan' = <<>>
    /\ UNCHANGED <<store, regs, registered, disp, last>>

\* one go statement of the first loop
LaunchOp ==
    /\ gather.pc = "launch"
    /\ LET i == gather.launched + 1
       IN  /\ probes' = [probes EXCEPT ![i] = "launched"]
           /\ gather' = [gather EXCEPT
                 !.launched = i,
                 !.pc = GatherPc(i, gather.received, Len(gather.plugins))]
    /\ UNCHANGED <<store, regs, registered, disp, last, chan>>

\* the goroutine of probe i starts its child
ProbeStartOp(i) ==
    /\ i \in DOMAIN probes
    /\ probes[i] = "launched"
    /\ probes' = [probes EXCEPT ![i] = "started"]
    /\ UNCHANGED <<store, regs, registered, disp, last, gather, chan>>

\* the child of probe i ends: CombinedOutput returns, and the goroutine
\* fills in its result and, on a failure, logs the error; the result is
\* not sent yet
ProbeExitOp(i) ==
    /\ i \in DOMAIN probes
    /\ probes[i] = "started"
    /\ gather.outcomes[i] # "hang"
    /\ gather.cyclic
           => probes[Dep(i, Len(probes))] \in {"started", "exited", "sent"}
    /\ probes' = [probes EXCEPT ![i] = "exited"]
    /\ gather' = [gather EXCEPT
          !.logged = IF gather.outcomes[i] = "ok" THEN @ ELSE @ + 1]
    /\ UNCHANGED <<store, regs, registered, disp, last, chan>>

\* the deferred function of the goroutine of probe i sends its result, as
\* the goroutine returns
ProbeSendOp(i) ==
    /\ i \in DOMAIN probes
    /\ probes[i] = "exited"
    /\ Len(chan) < Len(gather.plugins)
    /\ chan' = Sent(chan, pluginDescription(gather.plugins[i], gather.outcomes[i]))
    /\ probes' = [probes EXCEPT ![i] = "sent"]
    /\ UNCHANGED <<store, regs, registered, disp, last, gather>>

\* one receive of the second loop
ReceiveOp ==
    /\ gather.pc = "gather"
    /\ chan # <<>>
    /\ chan' = Tail(chan)
    /\ gather' = [gather EXCEPT
          !.results = Gathered(gather.results, Head(chan)),
          !.received = @ + 1,
          !.pc = GatherPc(gather.launched, gather.received + 1,
                          Len(gather.plugins))]
    /\ UNCHANGED <<store, regs, registered, disp, last, probes>>

InitGather ==
    /\ regs = InitRegs
    /\ registered = [r \in RegIds |-> regs[r].order]
    /\ disp = ("D" :> NewSuperCommand("D", NoParams))
                @@ ("S" :> NewSuperCommand("S", NoParams))
    /\ last = NoOp
    /\ GatherIdle
    /\ store = EmptyTopics

NextGather ==
    \/ DescriptionsOp
    \/ LaunchOp
    \/ ReceiveOp
    \/ \E i \in 1..MaxPlugins : ProbeStartOp(i)
    \/ \E i \in 1..MaxPlugins : ProbeExitOp(i)
    \/ \E i \in 1..MaxPlugins : ProbeSendOp(i)

SpecGather == InitGather /\ [][NextGather]_vars

\* the Go scheduler runs every goroutine that can take a step: the caller
\* inside Descriptions, and each probe
SpecGatherFair ==
    /\ SpecGather
    /\ WF_vars(LaunchOp)
    /\ WF_vars(ReceiveOp)
    /\ \A i \in 1..MaxPlugins :
          WF_vars(ProbeStartOp(i)) /\ WF_vars(ProbeExitOp(i)) /\ WF_vars(ProbeSendOp(i))

(***************************************************************************)
(* Claims about discovery.                                                 *)
(***************************************************************************)
\* how often x occurs in a sequence
Count(items, x) == Cardinality({i \in DOMAIN items : items[i] = x})

\* the entries name of the directories of a path that FindAll is to report:
\* pairs of a position in the path and a position in the listing
Reported(fs, dirs, name) ==
    {<<i, j>> \in (DOMAIN dirs) \X (1..3) :
        /\ dirs[i] \in DOMAIN fs
        /\ j \in DOMAIN fs[dirs[i]]
        /\ fs[dirs[i]][j].name = name
        /\ SubSeq(name, 1, 2) = <<"p", "-">>
        /\ \E bit \in {1, 8, 64} : (fs[dirs[i]][j].mode \div bit) % 2 = 1}

\* C19: FindAll returns, sorted, the names of the entries of the listed
\* directories that start with the prefix and have an execute bit set for
\* owner, group or other; a name is returned once for every readable
\* directory listed that holds it, and unreadable directories add nothing.
C19_FindAllSortedExecutables ==
    last.op = "FindAll"
    => LET dirs == IF last.path.nil THEN <<"d1", "d2">> ELSE last.path.dirs
       IN  /\ \A i, j \in DOMAIN last.result :
                 i < j => ~StringLess(last.result[j], last.result[i])
           /\ \A name \in FileNames :
                 Count(last.result, name)
                     = Cardinality(Reported(last.fs, dirs, name))

\* FindAll was handed the directory d1 twice and returned the name p-b
\* twice; d1 also holds p-a without an execute bit and pa without the prefix
C19_Witness ==
    /\ last.op = "FindAll"
    /\ ~last.path.nil
    /\ last.path.dirs = <<"d1", "d1">>
    /\ last.result = <<<<"p", "-", "b">>, <<"p", "-", "b">>>>
    /\ Len(last.fs["d1"]) = 3

(***************************************************************************)
(* Claims about running a plugin and about missingCommand.                 *)
(***************************************************************************)
\* C13: when RunPlugin runs the plugin, a child that exits with status 0
\* gives no error, a child that exits with a nonzero status n gives the
\* pass-through error carrying n, and an executable that cannot be located
\* or cannot be spawned gives UnrecognizedCommand naming the subcommand.
C13_RunPluginMapsOutcome ==
    (last.op = "RunPlugin" /\ last.events # <<>>)
    => /\ (last.child.kind = "exit" /\ last.child.code = 0) => last.err = NoErr
       /\ (last.child.kind = "exit" /\ last.child.code # 0)
              => last.err = [type |-> "RcPassthroughError",
                             msg |-> "subprocess encountered error code "
                                         \o ToString(last.child.code)]
       /\ last.child.kind \in {"notfound", "startfail"}
              => last.err = [type |-> "UnrecognizedCommand",
                             msg |-> "unrecognized command: " \o last.subcommand]

\* C14: missingCommand.Run calls the callback exactly once, with the stored
\* name and arguments; an UnrecognizedCommand from the callback is returned
\* as the UnrecognizedCommand named "<super name> <name>", and every other
\* result of the callback is returned unchanged.
C14_MissingRunQualifies ==
    last.op = "missingCommand.Run"
    => /\ last.events = <<Event("Callback", last.m.SuperName, last.m.Name,
                                last.m.Args)>>
       /\ last.result.type = "UnrecognizedCommand"
              => last.err = [type |-> "UnrecognizedCommand",
                             msg |-> "unrecognized command: " \o last.m.SuperName
                                         \o " " \o last.m.Name]
       /\ last.result.type # "UnrecognizedCommand" => last.err = last.result

\* the callback of the missingCommand for x under d reported x as
\* unrecognized, and Run returned the error naming "d x"
C14_Witness ==
    /\ last.op = "missingCommand.Run"
    /\ last.m.SuperName = "d"
    /\ last.m.Name = "x"
    /\ last.result = [type |-> "UnrecognizedCommand",
                      msg |-> "unrecognized command: x"]
    /\ last.err.msg = "unrecognized command: d x"
    /\ Len(last.events) = 1

(***************************************************************************)
(* Claims about gathering the descriptions.                                *)
(***************************************************************************)
\* no probe of the call hangs
NoHang == \A i \in DOMAIN gather.outcomes : gather.outcomes[i] # "hang"

\* C15: Descriptions has started every probe when it waits for a result,
\* and a call none of whose probes hangs returns, also when each probe ends
\* only after the next probe of a cycle has started.
C15_AllStartedBeforeWaiting ==
    /\ [](gather.pc = "gather"
             => /\ gather.launched = Len(gather.plugins)
                /\ \A i \in DOMAIN probes : probes[i] # "none")
    /\ (gather.pc = "launch" /\ NoHang) ~> (gather.pc = "done")

\* Descriptions returned after three probes that waited for each other in a
\* cycle
C15_Witness ==
    /\ gather.pc = "done"
    /\ gather.cyclic
    /\ Len(gather.plugins) = 3
    /\ gather.received = 3
    /\ \A i \in DOMAIN probes : probes[i] = "sent"

\* the description the probe of plugin i is to report
ExpectedDescription(i) ==
    IF gather.outcomes[i] = "ok"
    THEN IF gather.plugins[i] = <<"p", "-", "a">> THEN "A d" ELSE "B"
    ELSE IF gather.plugins[i] = <<"p", "-", "a">>
         THEN "error occurred running 'p-a --description'"
         ELSE "error occurred running 'p-b --description'"

\* the key of plugin i: its name without the prefix
ExpectedKey(i) == IF gather.plugins[i] = <<"p", "-", "a">> THEN "a" ELSE "b"

\* C16: the mapping Descriptions returns has one key per distinct plugin
\* name, the name without the prefix; the value of a key is the first line
\* of the output of a probe of that name that exited with status 0, or the
\* string "error occurred running '<full name> --description'" of one that
\* failed or could not be started; with no plugin the mapping is empty and
\* no probe is launched.
C16_OneEntryPerName ==
    gather.pc = "done"
    => /\ DOMAIN gather.results = {ExpectedKey(i) : i \in DOMAIN gather.plugins}
       /\ \A key \in DOMAIN gather.results :
             gather.results[key]
                 \in {ExpectedDescription(i) :
                         i \in {j \in DOMAIN gather.plugins : ExpectedKey(j) = key}}
       /\ gather.plugins = <<>>
              => gather.results = <<>> /\ probes = <<>> /\ gather.launched = 0

\* Descriptions returned for p-a, which printed two lines, and p-b, which
\* exited with status 1
C16_Witness ==
    /\ gather.pc = "done"
    /\ gather.plugins = <<<<"p", "-", "a">>, <<"p", "-", "b">>>>
    /\ gather.outcomes = <<"ok", "exit1">>
    /\ gather.results["a"] = "A d"
    /\ gather.results["b"] = "error occurred running 'p-b --description'"
    /\ gather.logged = 1

\* the orders in which n probes can complete
CompletionOrders(n) ==
    {order \in [1..n -> 1..n] : \A i, j \in 1..n : order[i] = order[j] => i = j}

\* the mapping gathered from the first k results of a completion order
RECURSIVE GatheredInOrder(_, _)
GatheredInOrder(order, k) ==
    IF k = 0 THEN <<>>
    ELSE Gathered(GatheredInOrder(order, k - 1),
                  pluginDescription(gather.plugins[order[k]],
                                    gather.outcomes[order[k]]))

\* C17: the mapping Descriptions returns is the mapping gathered in every
\* order in which its probes can complete.
C17_SameForEveryOrder ==
    gather.pc = "done"
    => \A order \in CompletionOrders(Len(gather.plugins)) :
           gather.results = GatheredInOrder(order, Len(gather.plugins))

\* C18: when Descriptions has returned it has received the result of every
\* probe, every probe has sent its result and none is left in the channel;
\* a call with a probe that never ends does not return.
C18_ReturnsAfterEveryResult ==
    /\ gather.pc = "done"
           => /\ gather.received = Len(gather.plugins)
              /\ \A i \in DOMAIN probes : probes[i] = "sent"
              /\ chan = <<>>
    /\ ~NoHang => gather.pc # "done"

\* Descriptions returned after the results of three probes that did not
\* depend on each other
C18_Witness ==
    /\ gather.pc = "done"
    /\ ~gather.cyclic
    /\ Len(gather.plugins) = 3
    /\ gather.received = 3
    /\ gather.launched = 3
    /\ chan = <<>>

(***************************************************************************)
(* Claims about extractIgnoredArgs.                                        *)
(***************************************************************************)
\* the scan from position i: a recognized flag is put out with the token
\* after it and the scan goes on at i + 2, any other token is skipped
RECURSIVE ScanFrom(_, _, _)
ScanFrom(flags, args, i) ==
    IF i > Len(args) THEN <<>>
    ELSE IF \E k \in DOMAIN flags : flags[k] = args[i]
    THEN (IF i + 1 <= Len(args) THEN <<args[i], args[i + 1]>> ELSE <<args[i]>>)
             \o ScanFrom(flags, args, i + 2)
    ELSE ScanFrom(flags, args, i + 1)

\* sub is a subsequence of full
RECURSIVE IsSubsequence(_, _)
IsSubsequence(sub, full) ==
    IF sub = <<>> THEN TRUE
    ELSE IF full = <<>> THEN FALSE
    ELSE IF Head(sub) = Head(full) THEN IsSubsequence(Tail(sub), Tail(full))
    ELSE IsSubsequence(sub, Tail(full))

\* C22: extractIgnoredArgs returns the result of the left-to-right scan
\* that puts out each recognized flag with the token after it and goes on
\* behind that token; the result is a subsequence of the arguments.
C22_ExtractIsScan ==
    last.op = "extractIgnoredArgs"
    => /\ last.result = ScanFrom(last.ignoredFlags, last.args, 1)
       /\ IsSubsequence(last.result, last.args)

\* of the arguments -e -e x with -e recognized, the second -e was taken as
\* the value of the first and x was dropped
C22_Witness ==
    /\ last.op = "extractIgnoredArgs"
    /\ last.ignoredFlags = <<"-e">>
    /\ last.args = <<"-e", "-e", "x">>
    /\ last.result = <<"-e", "-e">>

(***************************************************************************)
(* Claims about the alias map.                                             *)
(***************************************************************************)
\* C29: in every registry every key of the alias map maps to a key of the
\* canonical action map, and no name is a key of both maps; this holds
\* after a failed AddWithAliases too, whose rollback leaves no alias of the
\* action it removed.
C29_AliasesPointAtCanonical ==
    \A r \in RegIds :
        /\ \A alias \in DOMAIN regs[r].aliases :
              /\ regs[r].aliases[alias] \in DOMAIN regs[r].actions
              /\ regs[r].aliases[alias] \notin DOMAIN regs[r].aliases
        /\ (DOMAIN regs[r].aliases) \cap (DOMAIN regs[r].actions) = {}

\* AddWithAliases has just failed on the alias a after it had added the
\* alias "" (the order list still names it), and the alias map holds neither
\* that alias nor any other
C29_Witness ==
    /\ last.op = "AddWithAliases" /\ last.reg = "R"
    /\ last.err = ErrAdded("a")
    /\ "" \in Range(regs["R"].order)
    /\ DOMAIN regs["R"].aliases = {}
    /\ DOMAIN regs["R"].actions = {}

(***************************************************************************)
(* Claims about the channel of Descriptions.                               *)
(***************************************************************************)
\* the probes that have sent their result
SentProbes == {i \in DOMAIN probes : probes[i] = "sent"}

\* C30: the results sent, those in the channel and those received, are one
\* per probe that has ended, whether its child succeeded or failed; the
\* channel, together with the sends still to come, never holds more than
\* one result per plugin, so that no send blocks; when Descriptions has
\* returned the channel is empty and every probe has sent; and a step of a
\* probe changes nothing of the caller but its log.
C30_OneResultPerProbe ==
    /\ [](/\ Len(chan) + gather.received = Cardinality(SentProbes)
          /\ Len(chan) + Cardinality((DOMAIN probes) \ SentProbes)
                 <= Len(gather.plugins)
          /\ gather.pc = "done"
                 => chan = <<>> /\ SentProbes = DOMAIN probes)
    /\ [][probes' # probes /\ gather.pc = gather'.pc /\ gather.pc # "idle"
              /\ gather.launched = gather'.launched
          => /\ gather'.results = gather.results
             /\ gather'.received = gather.received
             /\ gather'.plugins = gather.plugins
             /\ gather'.outcomes = gather.outcomes]_vars

\* three probes, one of which failed, have sent their results before
\* Descriptions received any: the channel is full
C30_Witness ==
    /\ gather.pc = "gather"
    /\ Len(gather.plugins) = 3
    /\ Len(chan) = 3
    /\ gather.received = 0
    /\ gather.logged = 1
    /\ \A i \in DOMAIN probes : probes[i] = "sent"

(***************************************************************************)
(* Claims about Init and Run of the dispatcher.                            *)
(***************************************************************************)
\* C24: Run, the description flag not set, executes a command only after an
\* Init that returned success: after an Init that returned an error, and
\* before any Init, Run panics and neither notifies nor runs a command.
C24_RunNeedsInitSuccess ==
    /\ last.op = "none" => RunNow("D", NoErr).panic /\ RunNow("D", NoErr).events = <<>>
    /\ \A args \in ArgLists : \A leafInit \in LeafInitResults :
          LET init == SuperCommandInit(regs, disp, "D", args, [leafInit |-> leafInit])
              ran == SuperCommandRun(regs, init.sc, "D",
                                     [leafRun |-> NoErr, logStart |-> NoErr])
          IN  (/\ leafInit # NoErr => ReachesLeaf(args)
               /\ ~init.panic /\ init.err # NoErr
               /\ ~init.sc["D"].showDescription)
              => ran.panic /\ ran.events = <<>>

\* C25: Init of the outer dispatcher on the name of a nested dispatcher
\* parses the remaining arguments against the private flag set of the
\* nested dispatcher: the help and description flags of the outer
\* dispatcher stay as they were.
C25_NestedFlagsPrivate ==
    \A args \in ArgLists :
        (/\ args # <<>>
         /\ ~disp["D"].showDescription
         /\ LookUp(regs, "D", <<Head(args)>>).ok
         /\ IsSuperCommand(LookUp(regs, "D", <<Head(args)>>).action.Command)
         /\ ~InitNow("D", args).panic)
        => /\ InitNow("D", args).sc["D"].showHelp = disp["D"].showHelp
           /\ InitNow("D", args).sc["D"].showDescription = disp["D"].showDescription

\* C26: when the command executed returns the silent sentinel or a
\* pass-through exit-code error, no dispatcher on the way logs an error.
C26_NoLogOnPassThrough ==
    \A d \in Supers :
        Executes(d)
        => /\ LoggedErrors(RunNow(d, [type |-> "ErrSilent",
                                      msg |-> "cmd: error out silently"]).events) = <<>>
           /\ \A code \in ExitCodes :
                 LoggedErrors(RunNow(d, NewRcPassthroughError(code)).events) = <<>>

(***************************************************************************)
(* Claims about the registration calls of the dispatcher.                  *)
(***************************************************************************)
\* some event ev of who comes before the Run event of command cmd
RunsAfter(events, ev, what, cmd) ==
    \E i, j \in DOMAIN events :
        /\ i < j
        /\ events[i].ev = ev /\ events[i].what = what
        /\ events[j].ev = "Run" /\ events[j].who = cmd

\* the events hold the Run event of command cmd
Ran(events, cmd) == \E j \in DOMAIN events : events[j].ev = "Run" /\ events[j].who = cmd

\* the canonical action of the outer dispatcher's registry that wraps the
\* command cmd is deprecated
Deprecated(cmd) ==
    \E n \in DOMAIN regs["D"].actions :
        regs["D"].actions[n].Command = cmd /\ regs["D"].actions[n].Replacement # ""

\* C21: RegisterDeprecated with a check that reports obsolete leaves the
\* registries as they are; with a check that reports deprecated and not
\* obsolete the command is found under its name and under its alias, each
\* time with the replacement; Run of the dispatcher initialized on either
\* name warns of the deprecation before it runs the command.
C21_DeprecatedRegistered ==
    /\ \A deprecated \in BOOLEAN :
          LET res == RegisterDeprecated(regs, disp, "D", "L1",
                         [nil |-> FALSE, obsolete |-> TRUE,
                          deprecated |-> deprecated, replacement |-> "new"])
          IN  res.rs = regs /\ ~res.panic
    /\ (~LookUp(regs, "D", <<"a">>).ok /\ ~LookUp(regs, "D", <<"b">>).ok)
          => LET res == RegisterDeprecated(regs, disp, "D", "L1",
                            [nil |-> FALSE, obsolete |-> FALSE,
                             deprecated |-> TRUE, replacement |-> "new"])
             IN  /\ ~res.panic
                 /\ \A name \in {"a", "b"} :
                       /\ LookUp(res.rs, "D", <<name>>).ok
                       /\ LookUp(res.rs, "D", <<name>>).action.Name = name
                       /\ LookUp(res.rs, "D", <<name>>).action.Command = "L1"
                       /\ LookUp(res.rs, "D", <<name>>).action.Replacement = "new"
    /\ (/\ last.op = "Run" /\ ~last.panic
        /\ Ran(last.events, "L1")
        /\ disp["D"].action.Name \in {"a", "b"}
        /\ Deprecated("L1"))
          => \E i, j \in DOMAIN last.events :
                 /\ i < j
                 /\ last.events[i].ev = "Warning"
                 /\ last.events[j].ev = "Run" /\ last.events[j].who = "L1"

\* C28: a deprecated command is treated as deprecated under each of its
\* names: a Run that executes it warns before, whichever name Init was
\* given, and describeCommands lists none of its names.
C28_DeprecatedUnderEveryName ==
    /\ (/\ last.op = "Run" /\ ~last.panic
        /\ Ran(last.events, "L1")
        /\ Deprecated("L1"))
          => RunsAfter(last.events, "Warning", disp["D"].action.Name, "L1")
    /\ \A name \in Range(regs["D"].order) :
          (LookUp(regs, "D", <<name>>).ok
              /\ Deprecated(LookUp(regs, "D", <<name>>).action.Command))
          => \A i \in DOMAIN describeCommands(regs, disp, "D").lines :
                 describeCommands(regs, disp, "D").lines[i].name # name

\* C27: RegisterSuperAlias(name, super, forName) panics and leaves the
\* registries as they are unless super resolves to a nested dispatcher whose
\* registry resolves forName; then name resolves to an action with the
\* command of forName and the AliasedName "<super> <forName>"; name never
\* comes to resolve to the command of super.
C27_SuperAliasNeedsFullPath ==
    \A name \in AliasArgs, super \in SuperArgs, forName \in ForArgs :
        LET res == RegisterSuperAlias(regs, "D", name, super, forName, NilCheck)
            sup == lookUp(regs["D"], super)
            valid == /\ sup.ok
                     /\ IsSuperCommand(sup.action.Command)
                     /\ lookUp(regs[sup.action.Command], forName).ok
            free == ~LookUp(regs, "D", <<name>>).ok
        IN  /\ ~valid => res.panic /\ res.rs = regs
            /\ (valid /\ free)
                  => /\ ~res.panic
                     /\ LookUp(res.rs, "D", <<name>>)
                            = [ok |-> TRUE,
                               action |-> [Name |-> name,
                                           AliasedName |-> super \o " " \o forName,
                                           Command |-> lookUp(regs[sup.action.Command],
                                                              forName).action.Command,
                                           Aliases |-> <<>>, Replacement |-> ""]]
            /\ (free /\ sup.ok)
                  => ~(/\ LookUp(res.rs, "D", <<name>>).ok
                       /\ LookUp(res.rs, "D", <<name>>).action.Command
                              = sup.action.Command)

\* what Run of dispatcher d does before it executes its action: the start of
\* the log, the notification and the deprecation warning
BeforeExecution(d) ==
    (IF disp[d].Log THEN <<Event("LogStart", d, "", <<>>)>> ELSE <<>>)
    \o (IF ~disp[d].notifyRun THEN <<>>
        ELSE IF disp[d].usagePrefix # "" /\ disp[d].usagePrefix # disp[d].Name
        THEN <<Event("NotifyRun", d, disp[d].usagePrefix \o " " \o disp[d].Name, <<>>)>>
        ELSE <<Event("NotifyRun", d, disp[d].Name, <<>>)>>)
    \o (IF disp[d].action.Replacement # ""
        THEN <<Event("Warning", d, disp[d].action.Name, <<>>)>> ELSE <<>>)

\* the events that execute a command or notify of a run
Invokes(e) == e.ev \in {"Run", "Callback", "NotifyRun"}

\* C23: Run of a dispatcher with a resolved action and no description
\* request starts the log if one is configured, then notifies with the
\* qualified name, then warns if the action has a replacement, and only then
\* executes the command; when the start of the log fails nothing is notified
\* or executed and Run returns that error.
C23_RunOrder ==
    \A d \in Supers :
        (~disp[d].showDescription /\ Validate(disp[d].action) = NoErr)
        => \A leafRun \in {NoErr, ErrOther} :
              /\ LET res == SuperCommandRun(regs, disp, d,
                                [leafRun |-> leafRun, logStart |-> NoErr])
                     before == BeforeExecution(d)
                 IN  /\ Len(res.events) >= Len(before)
                     /\ SubSeq(res.events, 1, Len(before)) = before
                     /\ ~res.panic
                           => /\ Len(res.events) > Len(before)
                              /\ res.events[Len(before) + 1].ev
                                     \in {"Run", "Callback", "LogStart", "NotifyRun",
                                          "Warning", "Print"}
                              /\ res.events[Len(before) + 1].who # d
                              /\ res.err = IF leafRun = NoErr THEN NoErr ELSE ErrSilent
              /\ disp[d].Log
                    => LET res == SuperCommandRun(regs, disp, d,
                                      [leafRun |-> leafRun, logStart |-> ErrOther])
                       IN  /\ res.err = ErrOther
                           /\ ~res.panic
                           /\ res.events = <<Event("LogStart", d, "", <<>>)>>
                           /\ \A i \in DOMAIN res.events : ~Invokes(res.events[i])

\* the outer dispatcher, which logs, has just run the deprecated command a
\* under its name: log start, notification, warning, command, in that order
C23_Witness ==
    /\ last.op = "Run" /\ ~last.panic /\ Len(last.events) >= 4
    /\ SubSeq(last.events, 1, 4)
          = <<Event("LogStart", "D", "", <<>>), Event("NotifyRun", "D", "d", <<>>),
              Event("Warning", "D", "a", <<>>), Event("Run", "L1", "", <<>>)>>

(***************************************************************************)
(* Claims about the help-topic store.                                      *)
(***************************************************************************)
\* name resolves to a topic of the store, and the look-up returns
Resolves(t, name) == topicsLookUp(t, name).ok

\* name resolves to no topic of the store, and the look-up returns
Fresh(t, name) == ~topicsLookUp(t, name).ok /\ ~topicsLookUp(t, name).overflow

\* the elements of a sequence differ from each other
Distinct(items) == \A i, j \in DOMAIN items : i # j => items[i] # items[j]

\* C31: addAlias(name, alias) succeeds exactly when name is a canonical topic
\* and alias resolves to no topic yet; so addWithAliases of a topic with a
\* fresh name and fresh aliases succeeds and every alias then resolves to
\* the topic, and addWithAliases of a topic with a fresh name and an alias
\* that resolves already fails and leaves the store as it was.
C31_AddAliasNeedsFreshAlias ==
    /\ \A name \in TopicNames, alias \in TopicNames :
          ~topicsLookUp(store, alias).overflow
          => ((topicsAddAlias(store, name, alias).err = NoErr)
                 <=> (name \in DOMAIN store.topics /\ ~Resolves(store, alias)))
    /\ \A topic \in InputTopics :
          (/\ Fresh(store, topic.name)
           /\ \A i \in DOMAIN topic.aliases : Fresh(store, topic.aliases[i])
           /\ Distinct(<<topic.name>> \o topic.aliases))
          => LET res == topicsAddWithAliases(store, topic)
             IN  /\ res.err = NoErr
                 /\ \A i \in DOMAIN topic.aliases :
                       /\ Resolves(res.t, topic.aliases[i])
                       /\ topicsLookUp(res.t, topic.aliases[i]).topic = topic
    /\ \A topic \in InputTopics :
          (/\ Fresh(store, topic.name)
           /\ \A i \in DOMAIN topic.aliases :
                 ~topicsLookUp(store, topic.aliases[i]).overflow
           /\ \E i \in DOMAIN topic.aliases : Resolves(store, topic.aliases[i]))
          => LET res == topicsAddWithAliases(store, topic)
             IN  res.err # NoErr /\ res.t = store

====
